---------------------------- MODULE Spec2Model ----------------------------
(***************************************************************************)
(* A model of uncompress_lzma2 (src/uncompress_lzma2.c): the single-call   *)
(* LZMA2 decompressor.  The decoder is a sequential, deterministic         *)
(* program; one behaviour of the model is one call.  The call's inputs     *)
(* (input bytes, *insizep, *outsizep, and the build's pointer width) are   *)
(* drawn in Init; every action is one step of the call:                    *)
(*                                                                         *)
(*   ReadControl        lines 303-320   read and classify a control byte   *)
(*   UncompressedChunk  lines 621-647   copy an uncompressed chunk         *)
(*   LzmaChunkHeader    lines 321-386   sizes, properties, resets, rc init *)
(*   LzmaMain           lines 389-619   one iteration of the symbol loop   *)
(*   Finish             lines 654-657   write the sizes back and return    *)
(*   Undefined          lines 199-222   rc_bit on a pointer outside probs  *)
(*                                                                         *)
(* The steps are the operators ...Step over a record of the whole call     *)
(* state, so that the same translation is used by the actions and by       *)
(* uncompress_lzma2(...), the call as a function of its inputs.            *)
(***************************************************************************)
EXTENDS Integers, Sequences, FiniteSets, TLC

(***************************************************************************)
(* Constants of the source.                                                *)
(***************************************************************************)
RC_SHIFT_BITS == 8
RC_TOP_BITS == 24
RC_BIT_MODEL_TOTAL_BITS == 11
RC_BIT_MODEL_TOTAL == 2048
RC_MOVE_BITS == 5
RC_INIT_BYTES == 5
POS_STATES_MAX == 16
STATES == 12
LIT_STATES == 7
LITERAL_CODER_SIZE == 768
LITERAL_CODERS_MAX == 16
MATCH_LEN_MIN == 2
LEN_LOW_SYMBOLS == 8
LEN_MID_SYMBOLS == 8
LEN_HIGH_SYMBOLS == 256
DIST_STATES == 4
DIST_SLOTS == 64
DIST_MODEL_START == 4
DIST_MODEL_END == 14
FULL_DISTANCES == 128
ALIGN_BITS == 4
ALIGN_SIZE == 16

\* enum lzma_state
STATE_LIT_LIT == 0
STATE_SHORTREP_LIT_LIT == 3
STATE_LIT_MATCH == 7
STATE_LIT_LONGREP == 8
STATE_LIT_SHORTREP == 9
STATE_NONLIT_MATCH == 10
STATE_NONLIT_REP == 11

\* enum uncompress_status (UNCOMPRESS_NO_MEMORY is never returned)
UNCOMPRESS_OK == "OK"
UNCOMPRESS_DATA_ERROR == "DATA_ERROR"
UNCOMPRESS_INLIMIT == "INLIMIT"
UNCOMPRESS_OUTLIMIT == "OUTLIMIT"

(***************************************************************************)
(* 32-bit unsigned arithmetic.  rc_code, rc_range and rep[] are            *)
(* uint_least32_t and take values up to 2^32 - 1, above the integers that  *)
(* TLC computes with; a 32-bit value is kept as <<high, low>>, two         *)
(* 16-bit halves, and every operation below is exact modulo 2^32.          *)
(***************************************************************************)
W16 == 2^16

U32(n) == <<n \div W16, n % W16>>

U32Max == <<W16 - 1, W16 - 1>>

U32Lt(a, b) == a[1] < b[1] \/ (a[1] = b[1] /\ a[2] < b[2])

U32Add(a, b) ==
  LET lo == a[2] + b[2]
      hi == a[1] + b[1] + (lo \div W16)
  IN  <<hi % W16, lo % W16>>

U32Sub(a, b) ==
  LET lo == a[2] - b[2]
      hi == a[1] - b[1] - (IF lo < 0 THEN 1 ELSE 0)
  IN  <<hi % W16, lo % W16>>

\* a << k, for 0 <= k <= 8
U32Shl(a, k) ==
  <<(a[1] * 2^k + (a[2] \div 2^(16 - k))) % W16, (a[2] * 2^k) % W16>>

\* a >> 1
U32Shr1(a) == <<a[1] \div 2, (a[1] % 2) * (W16 \div 2) + (a[2] \div 2)>>

\* bit 31 of a
U32Top(a) == a[1] \div (W16 \div 2)

\* n * p as a 32-bit value, for n < 2^21 and p < 2^11 (the product is < 2^32)
U32Mul(n, p) ==
  LET a == n \div W16
      b == n % W16
  IN  <<a * p + ((b * p) \div W16), (b * p) % W16>>

\* the value of a as an integer when it is small (high half 0)
U32Small(a) == a[1] = 0

(***************************************************************************)
(* struct lzma_probabilities, flattened as the source flattens it          *)
(* (lzma_reset walks it as one array of probability_t): the offset of      *)
(* every table, in probability_t units from &probs.is_match[0][0].         *)
(***************************************************************************)
OFF_is_match == 0
OFF_is_rep == OFF_is_match + STATES * POS_STATES_MAX
OFF_is_rep0 == OFF_is_rep + STATES
OFF_is_rep1 == OFF_is_rep0 + STATES
OFF_is_rep2 == OFF_is_rep1 + STATES
OFF_is_rep0_long == OFF_is_rep2 + STATES
OFF_dist_slot == OFF_is_rep0_long + STATES * POS_STATES_MAX
OFF_dist_special == OFF_dist_slot + DIST_STATES * DIST_SLOTS
OFF_dist_align == OFF_dist_special + (FULL_DISTANCES - DIST_MODEL_END)
OFF_match_len_dec == OFF_dist_align + ALIGN_SIZE
\* struct lzma_len_dec: choice, choice2, low[16][8], mid[16][8], high[256]
LEN_DEC_low == 2
LEN_DEC_mid == LEN_DEC_low + POS_STATES_MAX * LEN_LOW_SYMBOLS
LEN_DEC_high == LEN_DEC_mid + POS_STATES_MAX * LEN_MID_SYMBOLS
LEN_DEC_SIZE == LEN_DEC_high + LEN_HIGH_SYMBOLS
OFF_rep_len_dec == OFF_match_len_dec + LEN_DEC_SIZE
OFF_literal == OFF_rep_len_dec + LEN_DEC_SIZE
\* sizeof(struct lzma_probabilities) / sizeof(probability_t) = 14134
PROBS_TOTAL == OFF_literal + LITERAL_CODERS_MAX * LITERAL_CODER_SIZE

(***************************************************************************)
(* The probability array is a function from the offsets written since the  *)
(* last lzma_reset to their values; an offset not in it holds the value    *)
(* lzma_reset stored, RC_BIT_MODEL_TOTAL / 2.                              *)
(***************************************************************************)
ProbAt(probs, i) ==
  IF i \in DOMAIN probs THEN probs[i] ELSE RC_BIT_MODEL_TOTAL \div 2

ProbSet(probs, i, v) == (i :> v) @@ probs

\* Whether offset i lies in frame.probs.  The source computes two pointers
\* that may not: the literal row of lines 401-402 (rows >= 16 lie past the
\* end of the frame) and the dist_special pointer of line 547.
ProbInFrame(i) == i >= 0 /\ i < PROBS_TOTAL

(***************************************************************************)
(* The input buffer: inbuf[i] of the source is InByte(f, i), 0-based.      *)
(* f.in_hi records one past the highest input index read so far.           *)
(***************************************************************************)
InByte(f, i) == IF i < Len(f.inbuf) THEN f.inbuf[i + 1] ELSE 0

Max(a, b) == IF a > b THEN a ELSE b

Min(a, b) == IF a < b THEN a ELSE b

(***************************************************************************)
(* rc_reset, lzma_reset                                                    *)
(***************************************************************************)
\* the range reset to 2^16 - 1
rc_reset_low(f) == [f EXCEPT !.rc_range = U32(2^16 - 1)]

rc_reset(f) == [f EXCEPT !.rc_range = U32Max]

\* the state reset alone
lzma_reset_state_only(f) == rc_reset([f EXCEPT !.state = STATE_LIT_LIT])

lzma_reset(f) ==
  rc_reset([f EXCEPT !.state = STATE_LIT_LIT,
                     !.rep = <<U32(0), U32(0), U32(0), U32(0)>>,
                     !.probs = <<>>])

\* read_unaligned_be32(&inbuf[i]): the big-endian value of inbuf[i..i+3].
\* (p[0] << 24 is a shift of an int; for p[0] >= 128 the result does not fit
\* an int, and every build of the source yields the wrapped 32-bit value.)
read_unaligned_be32(f, i) ==
  <<InByte(f, i) * 256 + InByte(f, i + 1),
    InByte(f, i + 2) * 256 + InByte(f, i + 3)>>

(***************************************************************************)
(* rc_normalize: [f |-> the frame after, ok |-> the return value].         *)
(* f.rc_min records the lowest high half (bits 16..31) that rc_range had   *)
(* when a call returned 1, f.rc_shifts the number of calls that shifted    *)
(* and returned 1.                                                         *)
(***************************************************************************)
\* the bytes of the chunk taken without the test against rc_limit
rc_normalize_unlimited(f) ==
  IF f.rc_range[1] < 2^(RC_TOP_BITS - 16)
  THEN [f |-> [f EXCEPT
                 !.rc_range = U32Shl(f.rc_range, RC_SHIFT_BITS),
                 !.rc_code = U32Add(U32Shl(f.rc_code, RC_SHIFT_BITS),
                                    U32(InByte(f, f.incount))),
                 !.incount = f.incount + 1,
                 !.in_hi = Max(f.in_hi, f.incount + 1)],
        ok |-> TRUE]
  ELSE [f |-> f, ok |-> TRUE]

rc_normalize(f) ==
  IF f.rc_range[1] < 2^(RC_TOP_BITS - 16)
  THEN LET g == [f EXCEPT !.rc_range = U32Shl(f.rc_range, RC_SHIFT_BITS)]
       IN  IF g.incount >= g.rc_limit
           THEN [f |-> g, ok |-> FALSE]
           ELSE [f |-> [g EXCEPT
                          !.rc_code = U32Add(U32Shl(g.rc_code, RC_SHIFT_BITS),
                                             U32(InByte(g, g.incount))),
                          !.incount = g.incount + 1,
                          !.in_hi = Max(g.in_hi, g.incount + 1),
                          !.rc_min = Min(g.rc_min, g.rc_range[1]),
                          !.rc_shifts = g.rc_shifts + 1],
                 ok |-> TRUE]
  ELSE [f |-> [f EXCEPT !.rc_min = Min(f.rc_min, f.rc_range[1])], ok |-> TRUE]

(***************************************************************************)
(* rc_bit on the probability at offset i of frame.probs:                   *)
(* [f |-> the frame after, bit |-> the return value].                      *)
(***************************************************************************)
rc_bit(f, i) ==
  LET p == ProbAt(f.probs, i)
      bound == U32Mul(f.rc_range[1] * 2^(16 - RC_BIT_MODEL_TOTAL_BITS)
                        + (f.rc_range[2] \div 2^RC_BIT_MODEL_TOTAL_BITS), p)
  IN  IF U32Lt(f.rc_code, bound)
      THEN [f |-> [f EXCEPT
                     !.rc_range = bound,
                     !.probs = ProbSet(f.probs, i,
                                 p + ((RC_BIT_MODEL_TOTAL - p) \div 2^RC_MOVE_BITS))],
            bit |-> 0]
      ELSE [f |-> [f EXCEPT
                     !.rc_range = U32Sub(f.rc_range, bound),
                     !.rc_code = U32Sub(f.rc_code, bound),
                     !.probs = ProbSet(f.probs, i, p - (p \div 2^RC_MOVE_BITS))],
            bit |-> 1]


(***************************************************************************)
(* The results of the decoding operators carry a tag: "ok", "limit"        *)
(* (rc_normalize returned 0: goto rc_limit_reached or return 0), "error"   *)
(* (RETURN(UNCOMPRESS_DATA_ERROR)) or "fault" (rc_bit is about to be       *)
(* called on a pointer outside frame.probs).  An intermediate result is    *)
(* handed to the operator that continues the code after it.                *)
(***************************************************************************)
\* if (!rc_normalize(frame)) ...; rc_bit(frame, &probs[i]): the pair that
\* decodes one bit, [tag, f, bit]
rc_bit_ok(b) == [tag |-> "ok", f |-> b.f, bit |-> b.bit]

rc_bit_after(n, i) ==
  IF ~n.ok THEN [tag |-> "limit", f |-> n.f, bit |-> 0]
  ELSE IF ~ProbInFrame(i) THEN [tag |-> "fault", f |-> n.f, bit |-> 0]
  ELSE rc_bit_ok(rc_bit(n.f, i))

rc_normalize_bit(f, i) == rc_bit_after(rc_normalize(f), i)

(***************************************************************************)
(* rc_bittree: [tag, f, symbol]; symbol is the return value, 0 when        *)
(* rc_normalize failed.  probs is the offset the pointer argument points   *)
(* to.                                                                     *)
(***************************************************************************)
RECURSIVE rc_bittree_loop(_, _, _, _)

\* line 234-236, r the result of the bit
rc_bittree_symbol(r, probs, limit, symbol) ==
  IF r.tag # "ok" THEN [tag |-> r.tag, f |-> r.f, symbol |-> 0]
  ELSE IF 2 * symbol + r.bit < limit
  THEN rc_bittree_loop(r.f, probs, limit, 2 * symbol + r.bit)
  ELSE [tag |-> "ok", f |-> r.f, symbol |-> 2 * symbol + r.bit]

rc_bittree_loop(f, probs, limit, symbol) ==
  rc_bittree_symbol(rc_normalize_bit(f, probs + symbol), probs, limit, symbol)

rc_bittree(f, probs, limit) == rc_bittree_loop(f, probs, limit, 1)

(***************************************************************************)
(* lzma_len: l is the offset of the struct lzma_len_dec.                   *)
(* [tag, f, len]; len is the return value, 0 when rc_normalize failed.     *)
(***************************************************************************)
\* lines 275-277, t the result of rc_bittree
lzma_len_result(t, limit, len) ==
  IF t.tag # "ok" THEN [tag |-> t.tag, f |-> t.f, len |-> 0]
  ELSE [tag |-> "ok", f |-> t.f, len |-> len + t.symbol - limit]

\* lines 253-255, 263-265, 269-271: the table, its size and the base length
lzma_len_table(l, pos_state, choice, choice2) ==
  IF choice = 0
  THEN [probs |-> l + LEN_DEC_low + pos_state * LEN_LOW_SYMBOLS,
        limit |-> LEN_LOW_SYMBOLS, len |-> MATCH_LEN_MIN]
  ELSE IF choice2 = 0
  THEN [probs |-> l + LEN_DEC_mid + pos_state * LEN_MID_SYMBOLS,
        limit |-> LEN_MID_SYMBOLS, len |-> MATCH_LEN_MIN + LEN_LOW_SYMBOLS]
  ELSE [probs |-> l + LEN_DEC_high,
        limit |-> LEN_HIGH_SYMBOLS,
        len |-> MATCH_LEN_MIN + LEN_LOW_SYMBOLS + LEN_MID_SYMBOLS]

\* lines 274-277
lzma_len_symbol(f, t) ==
  lzma_len_result(rc_bittree(f, t.probs, t.limit), t.limit, t.len)

\* lines 259-273, r the result of decoding l->choice2
lzma_len_choice2(r, l, pos_state) ==
  IF r.tag # "ok" THEN [tag |-> r.tag, f |-> r.f, len |-> 0]
  ELSE lzma_len_symbol(r.f, lzma_len_table(l, pos_state, 1, r.bit))

\* lines 251-258, r the result of decoding l->choice
lzma_len_choice(r, l, pos_state) ==
  IF r.tag # "ok" THEN [tag |-> r.tag, f |-> r.f, len |-> 0]
  ELSE IF r.bit = 0
  THEN lzma_len_symbol(r.f, lzma_len_table(l, pos_state, 0, 0))
  ELSE lzma_len_choice2(rc_normalize_bit(r.f, l + 1), l, pos_state)

lzma_len(f, l, pos_state) ==
  lzma_len_choice(rc_normalize_bit(f, l), l, pos_state)

(***************************************************************************)
(* The state of a call: the record c.  c.frame is struct frame (with the   *)
(* ghost fields in_hi, rc_min and rc_shifts); the other fields are the     *)
(* locals and parameters of                                                *)
(* uncompress_lzma2, the program counter pc, and history (ghost) fields:   *)
(*   insize0, outsize0  the values of *insizep, *outsizep at entry         *)
(*   outsizep_hi   *outsizep is a size_t: its value is                     *)
(*              outsizep_hi * 2^32 + outsizep, and outsizep_hi is 0 in an  *)
(*              ILP32 build.  Every other count of a call (outcount,       *)
(*              incount, the sizes of a chunk) stays below 2^31 here.      *)
(*   build      "ILP32" or "LP64": the pointer width of the build          *)
(*   chunks     the control bytes read so far                              *)
(*   chunk_in   the index in inbuf of the last control byte read           *)
(*   chunk_out  the value of outcount when the last control byte was read  *)
(*   ev         what the last step did                                     *)
(*   dict_rd    number of bytes read from the output buffer as dictionary  *)
(*   dict_bad   TRUE once such a read was outside [dict_origin, written)   *)
(*   out_hi     one past the highest output index written                  *)
(*   prev       the coding state the last step started from (see Coding)   *)
(*   repeat_len   the length that the last step of the symbol loop gave to *)
(*              the copy loop of lines 610-612 (after the clipping of      *)
(*              lines 602-606), Uninit if that step did not run the loop   *)
(*   short_chunks  the number of LZMA chunks that were left through the    *)
(*              check of lines 618-619 with another number of output bytes *)
(*              than they declare                                          *)
(* outbuf holds the bytes written so far: the source writes the output     *)
(* strictly left to right, so outbuf[0 .. outcount) is Len(outbuf) bytes.  *)
(* A local the source leaves uninitialised holds Uninit until assigned.    *)
(***************************************************************************)
Uninit == -1

Ev(kind, len, dist, rep_index) ==
  [kind |-> kind, len |-> len, dist |-> dist, rep_index |-> rep_index]

NoEv(kind) == Ev(kind, 0, U32(0), Uninit)

\* The coding state of a frame: the fields a chunk may keep from the chunk
\* before it, with the kind of the last symbol emitted since the state was
\* reset ("none" if there is none).  c.prev is the coding state the last
\* step of the chunk loop or of the symbol loop started from.
Coding(f, emitted) ==
  [state |-> f.state, rep |-> f.rep, probs |-> f.probs,
   lc |-> f.lc, lp |-> f.lp, pb |-> f.pb, emitted |-> emitted]

\* the kind of the last symbol emitted, after the step that set c.ev: the
\* symbols store to outbuf at lines 438 and 608-612, lzma_reset is line 366
LastEmission(c) ==
  IF c.ev.kind \in {"literal", "match", "longrep", "shortrep"} /\ c.ev.len > 0
  THEN c.ev.kind
  ELSE IF c.ev.kind = "header" /\ c.control >= 160 /\ c.pc = "lzma_main"
  THEN "none"
  ELSE c.prev.emitted

Before(c) ==
  [c EXCEPT !.prev = Coding(c.frame, LastEmission(c)), !.repeat_len = Uninit]

\* lines 284-295
InitCall(inbuf, insize, outsize, bld) ==
  [frame |-> [inbuf |-> inbuf, incount |-> 0, inlimit |-> insize, outcount |-> 0,
              rc_limit |-> Uninit, lc |-> Uninit, lp |-> Uninit, pb |-> Uninit,
              rc_code |-> <<Uninit, Uninit>>, rc_range |-> <<Uninit, Uninit>>,
              state |-> Uninit, rep |-> <<>>, probs |-> <<>>, in_hi |-> 0,
              rc_min |-> U32Max[1], rc_shifts |-> 0],
   outbuf |-> <<>>,
   insizep |-> insize, outsizep |-> outsize, outsizep_hi |-> 0,
   short_chunks |-> 0, repeat_len |-> Uninit,
   ret |-> UNCOMPRESS_OK,
   need_properties |-> FALSE, dict_reset_done |-> FALSE, dict_origin |-> Uninit,
   control |-> Uninit, uncompressed |-> Uninit, compressed |-> Uninit,
   out_limit |-> Uninit, more_run |-> FALSE,
   pc |-> "control",
   insize0 |-> insize, outsize0 |-> outsize, build |-> bld,
   chunks |-> <<>>, chunk_in |-> Uninit, chunk_out |-> 0, ev |-> NoEv("none"),
   dict_rd |-> 0, dict_bad |-> FALSE, out_hi |-> 0,
   prev |-> Coding([state |-> Uninit, rep |-> <<>>, probs |-> <<>>,
                    lc |-> Uninit, lp |-> Uninit, pb |-> Uninit], "none")]

\* the same with *outsizep = high * 2^32 + outsize at entry
InitCallWide(inbuf, insize, outsize, high, bld) ==
  [InitCall(inbuf, insize, outsize, bld) EXCEPT !.outsizep_hi = high]

\* RETURN(X): ret = X; goto finish, with the frame as it is at that point
Return(c, f, status, kind) ==
  [c EXCEPT !.frame = f, !.ret = status, !.pc = "finish", !.ev = NoEv(kind)]

(***************************************************************************)
(* Lines 303-320: read the control byte, end marker, dictionary reset.     *)
(* The step ends at the dispatch of line 321 / 621.                        *)
(***************************************************************************)
\* control 0x02 taken for a dictionary reset as well
IsDictResetOrRaw(ctl) == ctl >= 224 \/ ctl = 1 \/ ctl = 2

IsDictReset(ctl) == ctl >= 224 \/ ctl = 1

ReadControlStep(c) ==
  LET f == c.frame
  IN  IF f.incount >= f.inlimit
      THEN Return(c, f, UNCOMPRESS_INLIMIT, "control")
      ELSE
        LET ctl == InByte(f, f.incount)
            g == [f EXCEPT !.incount = f.incount + 1,
                           !.in_hi = Max(f.in_hi, f.incount + 1)]
            d == [c EXCEPT !.control = ctl,
                           !.chunks = Append(c.chunks, ctl),
                           !.chunk_in = f.incount,
                           !.chunk_out = f.outcount]
        IN  IF ctl = 0
            THEN Return(d, g, UNCOMPRESS_OK, "control")
            ELSE IF IsDictReset(ctl)
            THEN [d EXCEPT !.frame = g,
                           !.need_properties = TRUE,
                           !.dict_origin = g.outcount,
                           !.dict_reset_done = TRUE,
                           !.ev = NoEv("control"),
                           !.pc = IF ctl >= 128 THEN "lzma" ELSE "uncompressed"]
            ELSE IF ~c.dict_reset_done
            THEN Return(d, g, UNCOMPRESS_DATA_ERROR, "control")
            ELSE [d EXCEPT !.frame = g,
                           !.ev = NoEv("control"),
                           !.pc = IF ctl >= 128 THEN "lzma" ELSE "uncompressed"]

(***************************************************************************)
(* Lines 621-647: a control byte below 0x80 that is not the end marker.    *)
(***************************************************************************)
\* the size field read as the size itself
CopyLenFieldRaw(f, p) == InByte(f, p) * 256 + InByte(f, p + 1)

\* line 630: copy_len = ((p[0] << 8) | p[1]) + 1, p = &inbuf[incount]
CopyLenField(f, p) == InByte(f, p) * 256 + InByte(f, p + 1) + 1

\* the status if the first clipping decided it
CopyStatusInputFirst(inshort, outshort, status) ==
  IF inshort THEN UNCOMPRESS_INLIMIT
  ELSE IF outshort THEN UNCOMPRESS_OUTLIMIT
  ELSE status

\* lines 632-641: ret after the two clippings of copy_len; inshort: the input
\* left is shorter than copy_len; outshort: the output room is shorter than
\* copy_len as clipped to the input.  The later assignment is the one kept.
CopyStatus(inshort, outshort, status) ==
  IF outshort THEN UNCOMPRESS_OUTLIMIT
  ELSE IF inshort THEN UNCOMPRESS_INLIMIT
  ELSE status

\* line 637: (*outsizep - frame.outcount) < copy_len, in size_t
OutShort(high, outsize, outcount, len) ==
  high = 0 /\ outsize - outcount < len

UncompressedChunkStep(c) ==
  LET f == c.frame
  IN  IF c.control > 2
      THEN Return(c, f, UNCOMPRESS_DATA_ERROR, "reserved")
      ELSE IF f.inlimit - f.incount < 2
      THEN Return(c, f, UNCOMPRESS_INLIMIT, "size_field")
      ELSE
        LET p == f.incount
            declared == CopyLenField(f, p)
            incount2 == f.incount + 2
            inshort == f.inlimit - incount2 < declared
            len1 == IF inshort THEN f.inlimit - incount2 ELSE declared
            outshort == OutShort(c.outsizep_hi, c.outsizep, f.outcount, len1)
            copy_len == IF outshort THEN c.outsizep - f.outcount ELSE len1
            ret2 == CopyStatus(inshort, outshort, c.ret)
            \* memcpy(&outbuf[outcount], &p[2], copy_len)
            data == [i \in 1..copy_len |-> InByte(f, p + 2 + i - 1)]
            g == [f EXCEPT !.incount = incount2 + copy_len,
                           !.outcount = f.outcount + copy_len,
                           !.in_hi = Max(f.in_hi, incount2 + copy_len)]
        IN  [c EXCEPT !.frame = g,
                      !.outbuf = c.outbuf \o data,
                      !.out_hi = Max(c.out_hi, f.outcount + copy_len),
                      !.ret = ret2,
                      !.ev = Ev("uncompressed", copy_len, U32(0), Uninit),
                      !.pc = IF ret2 # UNCOMPRESS_OK THEN "finish" ELSE "control"]

(***************************************************************************)
(* Lines 321-386: the header of an LZMA chunk (control >= 0x80).           *)
(***************************************************************************)
\* lines 354-362: props -> [pb, lp, lc] by repeated subtraction
PropsPb(props) == props \div (5 * 9)
PropsLp(props) == (props % (5 * 9)) \div 9
PropsLc(props) == (props % (5 * 9)) % 9

\* lines 380-386: out_limit and more_run.  out_limit is a uint_least32_t:
\* line 380 stores the low 32 bits of *outsizep, which are outsize here.
\* Line 382 subtracts the size_t outcount from it without sign, so the
\* difference wraps to more than any declared size when outcount is above
\* out_limit.
OutLimit(outsize, outcount, usize) ==
  IF outcount > outsize \/ outsize - outcount > usize
  THEN [out_limit |-> outcount + usize, more_run |-> TRUE]
  ELSE [out_limit |-> outsize, more_run |-> FALSE]

\* the declared compressed size counted from behind the init bytes
RcLimitAfterInit(incount, csize, inlimit) ==
  IF incount + RC_INIT_BYTES + csize > inlimit
  THEN inlimit
  ELSE incount + RC_INIT_BYTES + csize

\* lines 368-370
RcLimit(incount, csize, inlimit) ==
  IF incount + csize > inlimit THEN inlimit ELSE incount + csize

\* no chunk held to need a properties byte
PropertiesNeverMissing(ctl, needed) == FALSE

\* lines 327-330: a chunk without a properties byte where one is needed
PropertiesMissing(ctl, needed) == ctl < 192 /\ needed

\* the input left tested before the declared compressed size
InitBytesStatusInputFirst(csize, avail) ==
  IF avail < RC_INIT_BYTES THEN UNCOMPRESS_INLIMIT
  ELSE IF csize < RC_INIT_BYTES THEN UNCOMPRESS_DATA_ERROR
  ELSE UNCOMPRESS_OK

\* lines 372-375: the status the two tests before the init bytes return with,
\* OK when neither returns; avail is inlimit - incount
InitBytesStatus(csize, avail) ==
  IF csize < RC_INIT_BYTES THEN UNCOMPRESS_DATA_ERROR
  ELSE IF avail < RC_INIT_BYTES THEN UNCOMPRESS_INLIMIT
  ELSE UNCOMPRESS_OK

LzmaChunkHeaderStep(c) ==
  LET f == c.frame
      ctl == c.control
      c1 == IF ctl >= 192 THEN [c EXCEPT !.need_properties = FALSE] ELSE c
  IN  IF PropertiesMissing(ctl, c.need_properties)
      THEN Return(c, f, UNCOMPRESS_DATA_ERROR, "header")
      ELSE IF f.inlimit - f.incount < 4
      THEN Return(c1, f, UNCOMPRESS_INLIMIT, "header")
      ELSE
        LET p == f.incount
            usize == ((ctl % 32) * 65536
                               + (InByte(f, p) * 256 + InByte(f, p + 1))) + 1
            csize == (InByte(f, p + 2) * 256 + InByte(f, p + 3)) + 1
            f4 == [f EXCEPT !.incount = f.incount + 4,
                            !.in_hi = Max(f.in_hi, f.incount + 4)]
            c4 == [c1 EXCEPT !.uncompressed = usize,
                             !.compressed = csize]
        IN  IF ctl >= 192 /\ f4.incount >= f4.inlimit
            THEN Return(c4, f4, UNCOMPRESS_INLIMIT, "header")
            ELSE
              LET props == InByte(f4, f4.incount)
                  f5 == IF ctl >= 192
                        THEN [f4 EXCEPT !.incount = f4.incount + 1,
                                        !.in_hi = Max(f4.in_hi, f4.incount + 1)]
                        ELSE f4
              IN  IF ctl >= 192 /\ props > (4 * 5 + 4) * 9 + 8
                  THEN Return(c4, f5, UNCOMPRESS_DATA_ERROR, "header")
                  ELSE
                    LET f6 == IF ctl >= 192
                              THEN [f5 EXCEPT !.pb = PropsPb(props),
                                              !.lp = PropsLp(props),
                                              !.lc = PropsLc(props)]
                              ELSE f5
                        f7 == IF ctl >= 160 THEN lzma_reset(f6) ELSE f6
                        f8 == [f7 EXCEPT !.rc_limit =
                                 RcLimit(f7.incount, csize, f7.inlimit)]
                    IN  IF InitBytesStatus(csize, f8.inlimit - f8.incount)
                             # UNCOMPRESS_OK
                        THEN Return(c4, f8,
                               InitBytesStatus(csize, f8.inlimit - f8.incount),
                               "header")
                        ELSE
                          LET f9 == [f8 EXCEPT
                                       !.rc_code = read_unaligned_be32(f8, f8.incount + 1),
                                       !.incount = f8.incount + RC_INIT_BYTES,
                                       !.in_hi = Max(f8.in_hi, f8.incount + RC_INIT_BYTES)]
                              ol == OutLimit(c.outsizep, f9.outcount, usize)
                          IN  [c4 EXCEPT !.frame = f9,
                                         !.out_limit = ol.out_limit,
                                         !.more_run = ol.more_run,
                                         !.ev = NoEv("header"),
                                         !.pc = "lzma_main"]

(***************************************************************************)
(* The output buffer: outbuf[i] of the source is OutByte(out, i), 0-based, *)
(* where out is the sequence of the bytes written so far.                  *)
(***************************************************************************)
OutByte(out, i) == IF i >= 0 /\ i < Len(out) THEN out[i + 1] ELSE 0

\* The value of a 32-bit quantity as an integer.  It is taken of rep[0]
\* behind the checks of lines 411 and 595 only, where rep[0] is below
\* outcount - dict_origin, so below 2^31.
U32Val(a) == a[1] * W16 + a[2]

\* n < a
LtU32(n, a) == U32Lt(U32(n), a)

\* n <= a, for a small non-negative integer n and a 32-bit a
LeU32(n, a) == ~U32Lt(a, U32(n))

(***************************************************************************)
(* lzma_literal, lines 398-438: [tag, f, symbol].                          *)
(***************************************************************************)
\* lines 401-402: the row of frame.probs.literal
LiteralRow(prev_byte, pos, lc, lp) ==
  (prev_byte \div 2^(8 - lc)) + ((pos % 2^lp) * 2^lc)

\* line 400
PrevByte(f, out, origin) ==
  IF f.outcount > origin THEN OutByte(out, f.outcount - 1) ELSE 0

\* lines 401-402: the offset of the row in frame.probs
LiteralProbs(f, out, origin) ==
  OFF_literal
    + LiteralRow(PrevByte(f, out, origin), f.outcount - origin, f.lc, f.lp)
        * LITERAL_CODER_SIZE

\* line 421: (match_byte <<= 1) & offset, match_byte being the value before
MatchBit(match_byte, offset) ==
  IF offset # 0 /\ ((2 * match_byte) \div offset) % 2 = 1 THEN offset ELSE 0

RECURSIVE lzma_literal_matched(_, _, _, _, _)

\* lines 426-435, r the result of the bit
lzma_literal_matched_bit(r, probs, match_byte, offset, symbol) ==
  IF r.tag # "ok" THEN [tag |-> r.tag, f |-> r.f, symbol |-> 0]
  ELSE IF 2 * symbol + r.bit < 256
  THEN lzma_literal_matched(r.f, probs, 2 * match_byte,
         IF r.bit = 1 THEN MatchBit(match_byte, offset)
         ELSE offset - MatchBit(match_byte, offset),
         2 * symbol + r.bit)
  ELSE [tag |-> "ok", f |-> r.f, symbol |-> 2 * symbol + r.bit]

\* lines 419-435: the matched-literal loop
lzma_literal_matched(f, probs, match_byte, offset, symbol) ==
  lzma_literal_matched_bit(
    rc_normalize_bit(f, probs + offset + MatchBit(match_byte, offset) + symbol),
    probs, match_byte, offset, symbol)

lzma_literal(f, out, origin) ==
  IF f.state < LIT_STATES
  THEN rc_bittree(f, LiteralProbs(f, out, origin), 256)
  ELSE IF LeU32(f.outcount - origin, f.rep[1])
  THEN [tag |-> "error", f |-> f, symbol |-> 0]
  ELSE lzma_literal_matched(f, LiteralProbs(f, out, origin),
         OutByte(out, f.outcount - U32Val(f.rep[1]) - 1), 256, 1)

\* the states 7..9 taken with 10 and 11
lzma_state_literal_late(state) ==
  IF state <= STATE_SHORTREP_LIT_LIT THEN STATE_LIT_LIT
  ELSE IF state < LIT_STATES THEN state - 3
  ELSE state - 6

\* lines 439-445: lzma_state_literal
lzma_state_literal(state) ==
  IF state <= STATE_SHORTREP_LIT_LIT THEN STATE_LIT_LIT
  ELSE IF state <= STATE_LIT_SHORTREP THEN state - 3
  ELSE state - 6

(***************************************************************************)
(* lzma_rep_match, lines 455-506: [tag, f, len, kind, rep_index].          *)
(* rep[1..4] of the model are rep[0..3] of the source.  kind is "shortrep" *)
(* or "longrep", rep_index the index of the recent distance chosen.        *)
(***************************************************************************)
RepResult(tag, f, len, kind, rep_index) ==
  [tag |-> tag, f |-> f, len |-> len, kind |-> kind, rep_index |-> rep_index]

\* rep[i] exchanged with rep[0]
RepSwap(rep, i) ==
  [j \in 1..4 |-> IF j = 1 THEN rep[i + 1]
                  ELSE IF j = i + 1 THEN rep[1]
                  ELSE rep[j]]

\* lines 480-495: rep[i] moves to the front
RepToFront(rep, i) ==
  CASE i = 0 -> rep
    [] i = 1 -> <<rep[2], rep[1], rep[3], rep[4]>>
    [] i = 2 -> <<rep[3], rep[1], rep[2], rep[4]>>
    [] i = 3 -> <<rep[4], rep[1], rep[2], rep[3]>>

\* lines 502-504, l the result of lzma_len
lzma_long_rep_len(l, rep_index) ==
  RepResult(l.tag, l.f, l.len, "longrep", rep_index)

\* lines 480-504: the rep[] update, lzma_state_long_rep and the length
lzma_long_rep(f, pos_state, rep_index) ==
  lzma_long_rep_len(
    lzma_len([f EXCEPT !.rep = RepToFront(f.rep, rep_index),
                       !.state = IF f.state < LIT_STATES
                                 THEN STATE_LIT_LONGREP ELSE STATE_NONLIT_REP],
             OFF_rep_len_dec, pos_state),
    rep_index)

\* the short rep taken as following a literal whatever the state
lzma_short_rep_lit(f) ==
  RepResult("ok", [f EXCEPT !.state = STATE_LIT_SHORTREP], 1, "shortrep", 0)

\* lines 465-470: lzma_state_short_rep
lzma_short_rep(f) ==
  RepResult("ok",
    [f EXCEPT !.state = IF f.state < LIT_STATES
                        THEN STATE_LIT_SHORTREP ELSE STATE_NONLIT_REP],
    1, "shortrep", 0)

\* lines 485-491, r the result of decoding is_rep2
lzma_rep_match_rep2(r, pos_state) ==
  IF r.tag # "ok" THEN RepResult(r.tag, r.f, 0, "rep", Uninit)
  ELSE lzma_long_rep(r.f, pos_state, IF r.bit = 0 THEN 2 ELSE 3)

\* lines 479-484, r the result of decoding is_rep1
lzma_rep_match_rep1(r, pos_state) ==
  IF r.tag # "ok" THEN RepResult(r.tag, r.f, 0, "rep", Uninit)
  ELSE IF r.bit = 0 THEN lzma_long_rep(r.f, pos_state, 1)
  ELSE lzma_rep_match_rep2(rc_normalize_bit(r.f, OFF_is_rep2 + r.f.state),
                           pos_state)

\* lines 463-471, r the result of decoding is_rep0_long
lzma_rep_match_rep0_long(r, pos_state) ==
  IF r.tag # "ok" THEN RepResult(r.tag, r.f, 0, "rep", Uninit)
  ELSE IF r.bit = 0 THEN lzma_short_rep(r.f)
  ELSE lzma_long_rep(r.f, pos_state, 0)

\* lines 459-479, r the result of decoding is_rep0
lzma_rep_match_rep0(r, pos_state) ==
  IF r.tag # "ok" THEN RepResult(r.tag, r.f, 0, "rep", Uninit)
  ELSE IF r.bit = 0
  THEN lzma_rep_match_rep0_long(
         rc_normalize_bit(r.f, OFF_is_rep0_long
                                 + r.f.state * POS_STATES_MAX + pos_state),
         pos_state)
  ELSE lzma_rep_match_rep1(rc_normalize_bit(r.f, OFF_is_rep1 + r.f.state),
                           pos_state)

lzma_rep_match(f, pos_state) ==
  lzma_rep_match_rep0(rc_normalize_bit(f, OFF_is_rep0 + f.state), pos_state)

(***************************************************************************)
(* lzma_match, lines 510-589: [tag, f, len].                               *)
(***************************************************************************)
Builds == {"ILP32", "LP64"}

\* An offset far outside frame.probs: where the pointer of line 547 points
\* on a build with 64-bit pointers when its 32-bit unsigned index wrapped
\* (the address is 2 * (2^32 - 1) bytes above frame.probs.dist_special).
FarPointer == 2^30

\* line 547: &frame.probs.dist_special[frame.rep[0] - dist_slot - 1], given
\* the index.  The index is a 32-bit unsigned value; with 32-bit pointers
\* the address arithmetic wraps with it, with 64-bit pointers it does not.
dist_special_at(index, bld) ==
  IF index[1] = 0 THEN OFF_dist_special + index[2]
  ELSE IF bld = "ILP32" THEN OFF_dist_special + index[2] - W16
  ELSE FarPointer

dist_special_ptr(rep0, dist_slot, bld) ==
  dist_special_at(U32Sub(rep0, U32(dist_slot + 1)), bld)

\* lines 557-562: one direct bit, after rc_normalize
rc_direct_bit(f, range) ==
  IF U32Top(U32Sub(f.rc_code, range)) = 1
  THEN [f EXCEPT !.rc_range = range,
                 !.rep[1] = U32Shl(f.rep[1], 1)]
  ELSE [f EXCEPT !.rc_range = range,
                 !.rc_code = U32Sub(f.rc_code, range),
                 !.rep[1] = U32Add(U32Shl(f.rep[1], 1), U32(1))]

RECURSIVE rc_direct(_, _)

\* lines 555-564, n the result of rc_normalize
rc_direct_after(n, limit) ==
  IF ~n.ok THEN [tag |-> "limit", f |-> n.f]
  ELSE IF limit - 1 > 0
  THEN rc_direct(rc_direct_bit(n.f, U32Shr1(n.f.rc_range)), limit - 1)
  ELSE [tag |-> "ok", f |-> rc_direct_bit(n.f, U32Shr1(n.f.rc_range))]

\* lines 551-564: rc_direct, limit iterations
rc_direct(f, limit) == rc_direct_after(rc_normalize(f), limit)

RECURSIVE rc_bittree_reverse(_, _, _, _, _)

\* lines 581-588, r the result of the bit
rc_bittree_reverse_bit(r, probs, limit, symbol, mask) ==
  IF r.tag # "ok" THEN [tag |-> r.tag, f |-> r.f]
  ELSE IF 2 * mask < limit
  THEN rc_bittree_reverse(
         IF r.bit = 1 THEN [r.f EXCEPT !.rep[1] = U32Add(r.f.rep[1], U32(mask))]
         ELSE r.f,
         probs, limit, 2 * symbol + r.bit, 2 * mask)
  ELSE [tag |-> "ok",
        f |-> IF r.bit = 1 THEN [r.f EXCEPT !.rep[1] = U32Add(r.f.rep[1], U32(mask))]
              ELSE r.f]

\* lines 570-588: rc_bittree_reverse
rc_bittree_reverse(f, probs, limit, symbol, mask) ==
  rc_bittree_reverse_bit(rc_normalize_bit(f, probs + symbol),
                         probs, limit, symbol, mask)

\* lines 566-568 and 570-588, d the result of rc_direct
lzma_match_align(d) ==
  IF d.tag # "ok" THEN d
  ELSE rc_bittree_reverse([d.f EXCEPT !.rep[1] = U32Shl(d.f.rep[1], ALIGN_BITS)],
                          OFF_dist_align, 2^ALIGN_BITS, 1, 1)

\* lines 541-542
DistLimit(dist_slot) == (dist_slot \div 2) - 1

DistBase(dist_slot) == 2 + (dist_slot % 2)

\* lines 536-589: the distance, from dist_slot (already reduced by DIST_SLOTS)
lzma_match_dist(f, dist_slot, bld) ==
  IF dist_slot < DIST_MODEL_START
  THEN [tag |-> "ok", f |-> [f EXCEPT !.rep[1] = U32(dist_slot)]]
  ELSE IF dist_slot < DIST_MODEL_END
  THEN rc_bittree_reverse(
         [f EXCEPT !.rep[1] = U32(DistBase(dist_slot) * 2^DistLimit(dist_slot))],
         dist_special_ptr(U32(DistBase(dist_slot) * 2^DistLimit(dist_slot)),
                          dist_slot, bld),
         2^DistLimit(dist_slot), 1, 1)
  ELSE lzma_match_align(
         rc_direct([f EXCEPT !.rep[1] = U32(DistBase(dist_slot))],
                   DistLimit(dist_slot) - ALIGN_BITS))

\* lines 536-589, d the result of the distance
lzma_match_result(d, len) == [tag |-> d.tag, f |-> d.f, len |-> len]

\* lines 533-536, t the result of rc_bittree
lzma_match_slot(t, len, bld) ==
  IF t.tag # "ok" THEN [tag |-> t.tag, f |-> t.f, len |-> 0]
  ELSE lzma_match_result(lzma_match_dist(t.f, t.symbol - DIST_SLOTS, bld), len)

\* lines 529-531: the offset of the dist_slot table for len
DistSlotProbs(len) ==
  OFF_dist_slot
    + (IF len < DIST_STATES + MATCH_LEN_MIN
       THEN len - MATCH_LEN_MIN ELSE DIST_STATES - 1) * DIST_SLOTS

\* lines 526-532, l the result of lzma_len
lzma_match_len(l, bld) ==
  IF l.tag # "ok" THEN l
  ELSE lzma_match_slot(rc_bittree(l.f, DistSlotProbs(l.len), DIST_SLOTS),
                       l.len, bld)

lzma_match(f, pos_state, bld) ==
  lzma_match_len(
    lzma_len([f EXCEPT !.state = IF f.state < LIT_STATES
                                 THEN STATE_LIT_MATCH ELSE STATE_NONLIT_MATCH,
                       !.rep = <<f.rep[1], f.rep[1], f.rep[2], f.rep[3]>>],
             OFF_match_len_dec, pos_state),
    bld)

(***************************************************************************)
(* dict_repeat, lines 592-615, applied to the call state c with the frame  *)
(* f left by the symbol decoder.                                           *)
(***************************************************************************)
\* lines 608-610: the byte-by-byte copy of len bytes from index src to the
\* write position Len(out).  The k-th byte read (k = 0, 1, ...) is at index
\* src + k; once src + k reaches the write position it is a byte this same
\* copy wrote, the one read Len(out) - src steps earlier.
dict_copy(out, src, len) ==
  out \o [k \in 1..len |-> OutByte(out, src + ((k - 1) % (Len(out) - src)))]

\* whether the copy reads outside [dict_origin, number of bytes written):
\* the k-th read is at src + k and Len(out) + k bytes are written by then
dict_copy_bad(out, src, origin) == src < origin \/ src >= Len(out)

\* the length clipped to one byte less than the room below the limit
ClipLenBelow(limit, outcount, len) ==
  IF limit - outcount < len THEN limit - outcount - 1 ELSE len

\* lines 602-606: the length and the status after clipping to out_limit
ClipLen(limit, outcount, len) ==
  IF limit - outcount < len THEN limit - outcount ELSE len

ClipRet(limit, outcount, len, more, status) ==
  IF limit - outcount < len
  THEN (IF more THEN UNCOMPRESS_DATA_ERROR ELSE UNCOMPRESS_OUTLIMIT)
  ELSE status

\* lines 599-613, len already clipped and ret set
dict_repeat_copy(c, f, len, status, src, kind, rep_index) ==
  [c EXCEPT !.frame = [f EXCEPT !.outcount = f.outcount + len],
            !.outbuf = dict_copy(c.outbuf, src, len),
            !.out_hi = Max(c.out_hi, f.outcount + len),
            !.dict_rd = c.dict_rd + len,
            !.dict_bad = c.dict_bad \/ dict_copy_bad(c.outbuf, src, c.dict_origin),
            !.ret = status,
            !.ev = Ev(kind, len, f.rep[1], rep_index),
            !.repeat_len = len,
            !.pc = IF status # UNCOMPRESS_OK THEN "finish" ELSE "lzma_main"]

dict_repeat(c, f, len, kind, rep_index) ==
  IF LeU32(f.outcount - c.dict_origin, f.rep[1])
  THEN [c EXCEPT !.frame = f, !.ret = UNCOMPRESS_DATA_ERROR, !.pc = "finish",
                 !.ev = Ev(kind, 0, f.rep[1], rep_index)]
  ELSE dict_repeat_copy(c, f,
         ClipLen(c.out_limit, f.outcount, len),
         ClipRet(c.out_limit, f.outcount, len, c.more_run, c.ret),
         f.outcount - U32Val(f.rep[1]) - 1, kind, rep_index)

(***************************************************************************)
(* Lines 389-619 and 650-653: one iteration of the lzma_main loop,         *)
(* including leaving the loop (break and the check of lines 618-619, or    *)
(* goto rc_limit_reached).                                                 *)
(***************************************************************************)
\* the end of the input taken for the end of the stream
rc_limit_reached_ok(c, f) ==
  Return(c, f, IF f.incount >= f.inlimit THEN UNCOMPRESS_OK
               ELSE UNCOMPRESS_DATA_ERROR, "rc_limit")

\* the end of the chunk's bytes reported as DATA_ERROR whatever the input size
rc_limit_reached_data_error(c, f) ==
  Return(c, f, UNCOMPRESS_DATA_ERROR, "rc_limit")

\* lines 650-653
rc_limit_reached(c, f) ==
  Return(c, f, IF f.incount >= f.inlimit THEN UNCOMPRESS_INLIMIT
               ELSE UNCOMPRESS_DATA_ERROR, "rc_limit")

\* rc_bit is about to be called on a pointer outside frame.probs: the
\* behaviour of the call is undefined from here on (see Undefined below)
Fault(c, f, kind) == [c EXCEPT !.frame = f, !.pc = "undefined", !.ev = NoEv(kind)]

\* a decoding result that is not "ok"
Failed(c, r, kind) ==
  CASE r.tag = "limit" -> rc_limit_reached(c, r.f)
    [] r.tag = "error" -> Return(c, r.f, UNCOMPRESS_DATA_ERROR, kind)
    [] r.tag = "fault" -> Fault(c, r.f, kind)

\* lines 438-445: store the literal
LiteralStore(c, t) ==
  [c EXCEPT
     !.frame = [t.f EXCEPT !.outcount = t.f.outcount + 1,
                           !.state = lzma_state_literal(t.f.state)],
     !.outbuf = Append(c.outbuf, t.symbol % 256),
     !.out_hi = Max(c.out_hi, t.f.outcount + 1),
     !.ev = Ev("literal", 1, U32(0), Uninit)]

\* line 415: the read of the match byte at the index src of outbuf
MatchByteReadAt(c, f, src) ==
  [c EXCEPT !.dict_rd = c.dict_rd + 1,
            !.dict_bad = c.dict_bad \/ src < c.dict_origin \/ src >= f.outcount]

\* lines 407-415: a matched literal that passes the check of line 411 reads
\* its match byte before it decodes a bit, so also when the decoding fails
MatchByteRead(c, f) ==
  IF f.state >= LIT_STATES /\ ~LeU32(f.outcount - c.dict_origin, f.rep[1])
  THEN MatchByteReadAt(c, f, f.outcount - U32Val(f.rep[1]) - 1)
  ELSE c

\* lines 398-446, t the result of lzma_literal on the frame f
LiteralResult(c, f, t) ==
  IF t.tag # "ok" THEN Failed(MatchByteRead(c, f), t, "literal")
  ELSE LiteralStore(MatchByteRead(c, f), t)

LiteralStep(c, f) == LiteralResult(c, f, lzma_literal(f, c.outbuf, c.dict_origin))

\* lines 502-507 and 592-615, r the result of lzma_rep_match
RepStep(c, r) ==
  IF r.tag # "ok" THEN Failed(c, r, "rep")
  ELSE dict_repeat(c, r.f, r.len, r.kind, r.rep_index)

\* lines 526-590 and 592-615, m the result of lzma_match
MatchStep(c, m) ==
  IF m.tag # "ok" THEN Failed(c, m, "match")
  ELSE dict_repeat(c, m.f, m.len, "match", Uninit)

\* lines 447-590, r the result of decoding is_rep
LzmaMainIsRep(c, r, pos_state) ==
  IF r.tag # "ok" THEN Failed(c, r, "symbol")
  ELSE IF r.bit = 1 THEN RepStep(c, lzma_rep_match(r.f, pos_state))
  ELSE MatchStep(c, lzma_match(r.f, pos_state, c.build))

\* lines 397-447, b the result of decoding is_match
LzmaMainIsMatch(c, b, pos_state) ==
  IF b.bit = 0 THEN LiteralStep(c, b.f)
  ELSE LzmaMainIsRep(c, rc_normalize_bit(b.f, OFF_is_rep + b.f.state), pos_state)

\* line 396
PosState(f, origin) == (f.outcount - origin) % 2^(f.pb)

\* lines 392-397 and 618-619, n the result of rc_normalize
LzmaMainLoop(c, n) ==
  IF ~n.ok THEN rc_limit_reached(c, n.f)
  ELSE IF n.f.outcount >= c.out_limit
  THEN \* break; lines 618-619
       IF n.f.incount < n.f.rc_limit
       THEN Return(c, n.f, UNCOMPRESS_DATA_ERROR, "chunk_end")
       ELSE [c EXCEPT !.frame = n.f, !.pc = "control", !.ev = NoEv("chunk_end"),
                      !.short_chunks =
                         IF n.f.outcount # c.chunk_out + c.uncompressed
                         THEN c.short_chunks + 1 ELSE c.short_chunks]
  ELSE LzmaMainIsMatch(c,
         rc_bit(n.f, OFF_is_match + n.f.state * POS_STATES_MAX
                       + PosState(n.f, c.dict_origin)),
         PosState(n.f, c.dict_origin))

LzmaMainStep(c) == LzmaMainLoop(c, rc_normalize(c.frame))

(***************************************************************************)
(* Lines 654-657: finish.                                                  *)
(***************************************************************************)
\* finish without the store to *outsizep
FinishStepNoOutsize(c) ==
  [c EXCEPT !.insizep = c.frame.incount, !.pc = "done"]

FinishStep(c) ==
  [c EXCEPT !.insizep = c.frame.incount,
            !.outsizep = c.frame.outcount,
            !.outsizep_hi = 0,
            !.pc = "done"]

(***************************************************************************)
(* The call as a function of its inputs: the steps iterated until the      *)
(* call has returned ("done") or its behaviour is undefined.               *)
(***************************************************************************)
Step(c) ==
  CASE c.pc = "control" -> ReadControlStep(Before(c))
    [] c.pc = "uncompressed" -> UncompressedChunkStep(Before(c))
    [] c.pc = "lzma" -> LzmaChunkHeaderStep(Before(c))
    [] c.pc = "lzma_main" -> LzmaMainStep(Before(c))
    [] c.pc = "finish" -> FinishStep(c)
    [] OTHER -> c

RECURSIVE Run(_)
Run(c) == IF c.pc \in {"done", "undefined"} THEN c ELSE Run(Step(c))

uncompress_lzma2(inbuf, insize, outsize, bld) ==
  Run(InitCall(inbuf, insize, outsize, bld))

(***************************************************************************)
(* The calls that are checked: the input buffers, each given to the call   *)
(* with every input size up to its length and every output size up to      *)
(* MaxOutSize, on both builds.                                             *)
(***************************************************************************)
\* the end marker, followed by one more byte
\*   (00 01)
StreamEnd ==
  <<0, 1>>

\* one uncompressed chunk 'hello' and the end marker
\*   (01 00 04 68 65 6c 6c 6f 00)
StreamHello ==
  <<1, 0, 4, 104, 101, 108, 108, 111, 0>>

\* uncompressed chunks 01 'he' and 02 'l', the end marker, one more byte
\*   (01 00 01 68 65 02 00 00 6c 00 ff)
StreamRaw2 ==
  <<1, 0, 1, 104, 101, 2, 0, 0, 108, 0, 255>>

\* an uncompressed chunk 02 before any dictionary reset
\*   (02 00 00 61 00)
StreamRawNoReset ==
  <<2, 0, 0, 97, 0>>

\* uncompressed chunk 01 'a', then the reserved control byte 03
\*   (01 00 00 61 03 00)
StreamReserved ==
  <<1, 0, 0, 97, 3, 0>>

\* an LZMA chunk 80 before any dictionary reset
\*   (80 00 00 00 05 5d 00 30 ff fc 00 00)
StreamLzmaFirst80 ==
  <<128, 0, 0, 0, 5, 93, 0, 48, 255, 252, 0, 0>>

\* LZMA chunk E0 (lc 3, lp 0, pb 2): literals 'a' 'b'
\*   (e0 00 01 00 06 5d 00 30 98 7c 00 00 00 00)
StreamLits ==
  <<224, 0, 1, 0, 6, 93, 0, 48, 152, 124, 0, 0, 0, 0>>

\* LZMA chunk E0: literal 'a'; LZMA chunk 80: literal 'b'
\*   (e0 00 00 00 05 5d 00 30 7f fc 00 00 80 00 00 00 05 00 30 ff fc 00 00 00)
StreamTwo80 ==
  <<224, 0, 0, 0, 5, 93, 0, 48, 127, 252, 0, 0, 128, 0, 0, 0, 5, 0, 48,
    255, 252, 0, 0, 0>>

\* LZMA chunk E0: literal 'a'; LZMA chunk C0: literal 'b'
\*   (e0 00 00 00 05 5d 00 30 7f fc 00 00 c0 00 00 00 05 5d 00 30 ff fc 00 00 00)
StreamTwoC0 ==
  <<224, 0, 0, 0, 5, 93, 0, 48, 127, 252, 0, 0, 192, 0, 0, 0, 5, 93, 0, 48,
    255, 252, 0, 0, 0>>

\* uncompressed chunk 01 'a', then an LZMA chunk 80 (no properties yet)
\*   (01 00 00 61 80 00 00 00 05 00 30 ff fc 00 00 00)
StreamRawThen80 ==
  <<1, 0, 0, 97, 128, 0, 0, 0, 5, 0, 48, 255, 252, 0, 0, 0>>

\* uncompressed 01 'a'; LZMA chunk C0: literal 'b'; uncompressed 02 'c'
\*   (01 00 00 61 c0 00 00 00 05 5d 00 30 ff fc 00 00 02 00 00 63 00)
StreamRawThenC0 ==
  <<1, 0, 0, 97, 192, 0, 0, 0, 5, 93, 0, 48, 255, 252, 0, 0, 2, 0, 0, 99, 0>>

\* LZMA chunk E0: 'a', match(dist 0, len 3), 'b', long rep0 (len 2), short rep
\*   (e0 00 07 00 09 5d 00 30 c1 fd 8b 43 00 00 00 00 00)
StreamRep ==
  <<224, 0, 7, 0, 9, 93, 0, 48, 193, 253, 139, 67, 0, 0, 0, 0, 0>>

\* LZMA chunk E0: 'a', then a match of distance 1 (one byte is written)
\*   (e0 00 02 00 06 5d 00 30 c0 04 00 00 00 00)
StreamBadDist ==
  <<224, 0, 2, 0, 6, 93, 0, 48, 192, 4, 0, 0, 0, 0>>

\* uncompressed 01 'a', uncompressed 01 'c' (dictionary reset at 1),
\* LZMA chunk C0: a match of distance 1, which would read index 0
\*   (01 00 00 61 01 00 00 63 c0 00 01 00 05 5d 00 80 0f fc 00 00 00)
StreamOrigin ==
  <<1, 0, 0, 97, 1, 0, 0, 99, 192, 0, 1, 0, 5, 93, 0, 128, 15, 252, 0, 0, 0>>

\* LZMA chunk E0: 'abcde', match(dist 4, len 2): distance slot 4
\*   (e0 00 06 00 0b 5d 00 30 98 88 98 3e d1 71 3a 60 00 00 00)
StreamSlot4 ==
  <<224, 0, 6, 0, 11, 93, 0, 48, 152, 136, 152, 62, 209, 113, 58, 96, 0, 0,
    0>>

\* StreamLits with the declared uncompressed size raised to 3: the payload
\* encodes the two literals only
\*   (e0 00 02 00 06 5d 00 30 98 7c 00 00 00 00)
StreamDeclared3 ==
  <<224, 0, 2, 0, 6, 93, 0, 48, 152, 124, 0, 0, 0, 0>>

\* LZMA chunk E0 with properties 0D (lc 4, lp 1, pb 0) and a zero payload:
\* the second literal is at position 1, literal row 16
\*   (e0 00 01 00 07 0d 00 00 00 00 00 00 00 00)
StreamRow16 ==
  <<224, 0, 1, 0, 7, 13, 0, 0, 0, 0, 0, 0, 0, 0>>

\* LZMA chunk E0 with properties byte E1 (225)
\*   (e0 00 00 00 05 e1 00 00 00 00 00)
StreamBadProps ==
  <<224, 0, 0, 0, 5, 225, 0, 0, 0, 0, 0>>

\* LZMA chunk E0 declaring a compressed size of 4
\*   (e0 00 00 00 03 5d 00 00 00 00 00)
StreamShortRc ==
  <<224, 0, 0, 0, 3, 93, 0, 0, 0, 0, 0>>

\* LZMA chunk E0: 'a', then a match of distance 1048699 (distance slot 40:
\* 15 direct bits and 4 align bits)
\*   (e0 00 02 00 08 5d 00 30 c1 3c 00 7d 00 00 00 00)
StreamDirect ==
  <<224, 0, 2, 0, 8, 93, 0, 48, 193, 60, 0, 125, 0, 0, 0, 0>>

\* StreamLits with the declared compressed size reduced to 5: the range
\* coder may read no byte after its init bytes
\*   (e0 00 01 00 04 5d 00 30 98 7c 00 00 00 00)
StreamUndersized ==
  <<224, 0, 1, 0, 4, 93, 0, 48, 152, 124, 0, 0, 0, 0>>

\* StreamRep with the declared uncompressed size reduced to 3: the match of
\* length 3 at position 1 is longer than the 2 bytes left in the chunk
\*   (e0 00 02 00 09 5d 00 30 c1 fd 8b 43 00 00 00 00 00)
StreamOverrun ==
  <<224, 0, 2, 0, 9, 93, 0, 48, 193, 253, 139, 67, 0, 0, 0, 0, 0>>

\* LZMA chunk E0: 'a', long rep0 (len 2), 'b', short rep, 'cdef'
\*   (e0 00 08 00 0c 5d 00 30 e8 14 b0 c9 7f 74 8a ef 1e 58 00 00)
StreamStates1 ==
  <<224, 0, 8, 0, 12, 93, 0, 48, 232, 20, 176, 201, 127, 116, 138, 239, 30,
    88, 0, 0>>

\* LZMA chunk E0: 'a', match(dist 0, len 2), long rep0 (len 2), 'bcd',
\* match(dist 0, len 2)
\*   (e0 00 09 00 0c 5d 00 30 c0 02 81 88 c6 73 1a 1e a0 00 00 00)
StreamStates2 ==
  <<224, 0, 9, 0, 12, 93, 0, 48, 192, 2, 129, 136, 198, 115, 26, 30, 160, 0,
    0, 0>>

\* LZMA chunk E0: 'a', match(dist 0, len 2) twice, 'bcd', short rep
\*   (e0 00 08 00 0b 5d 00 30 c0 00 00 1e 72 ce 64 b0 0d c0 00)
StreamStates3 ==
  <<224, 0, 8, 0, 11, 93, 0, 48, 192, 0, 0, 30, 114, 206, 100, 176, 13, 192,
    0>>

\* LZMA chunk E0: 'ab', match(dist 1, len 2), match(dist 2, len 2),
\* match(dist 3, len 2), then a long rep (len 2) of rep[0], rep[1], rep[2],
\* rep[3]
\*   (e0 00 09 00 0b 5d 00 30 98 9c 06 00 be 34 4b 88 88 00 00)
StreamRep0 ==
  <<224, 0, 9, 0, 11, 93, 0, 48, 152, 156, 6, 0, 190, 52, 75, 136, 136, 0,
    0>>

\*   (e0 00 09 00 0b 5d 00 30 98 9c 06 00 be 34 af f0 88 00 00)
StreamRep1 ==
  <<224, 0, 9, 0, 11, 93, 0, 48, 152, 156, 6, 0, 190, 52, 175, 240, 136, 0,
    0>>

\*   (e0 00 09 00 0b 5d 00 30 98 9c 06 00 be 35 14 5b 18 00 00)
StreamRep2 ==
  <<224, 0, 9, 0, 11, 93, 0, 48, 152, 156, 6, 0, 190, 53, 20, 91, 24, 0, 0>>

\*   (e0 00 09 00 0b 5d 00 30 98 9c 06 00 be 35 46 90 60 00 00)
StreamRep3 ==
  <<224, 0, 9, 0, 11, 93, 0, 48, 152, 156, 6, 0, 190, 53, 70, 144, 96, 0, 0>>

\* LZMA chunk E0: 'ab', match(dist 1, len 2); uncompressed 02 'd';
\* LZMA chunk A0: 'e'; LZMA chunk C0 with properties 00 (lc 0, lp 0, pb 0): 'f'
\*   (e0 00 03 00 07 5d 00 30 98 9c 04 00 00 00 02 00 00 64 a0 00 00 00 05
\*    00 32 7f fc 00 00 c0 00 00 00 05 00 00 32 ff fc 00 00 00)
StreamResets ==
  <<224, 0, 3, 0, 7, 93, 0, 48, 152, 156, 4, 0, 0, 0, 2, 0, 0, 100, 160, 0,
    0, 0, 5, 0, 50, 127, 252, 0, 0, 192, 0, 0, 0, 5, 0, 0, 50, 255, 252, 0,
    0, 0>>

\* LZMA chunk E0: 'ab', match(dist 1, len 2), 'c', short rep;
\* LZMA chunk 80: 'd'
\*   (e0 00 05 00 09 5d 00 30 98 9c 04 c7 84 00 00 00 80 00 00 00 05 00 32
\*    db a9 80 00 00)
StreamKeep80 ==
  <<224, 0, 5, 0, 9, 93, 0, 48, 152, 156, 4, 199, 132, 0, 0, 0, 128, 0, 0, 0,
    5, 0, 50, 219, 169, 128, 0, 0>>

Inputs ==
  {StreamEnd, StreamHello, StreamRaw2, StreamRawNoReset,
   StreamReserved, StreamLzmaFirst80, StreamLits, StreamTwo80,
   StreamTwoC0, StreamRawThen80, StreamRawThenC0, StreamRep,
   StreamBadDist, StreamOrigin, StreamSlot4, StreamRow16,
   StreamBadProps, StreamShortRc, StreamUndersized, StreamOverrun,
   StreamStates1, StreamStates2, StreamStates3, StreamRep0, StreamRep1,
   StreamRep2, StreamRep3, StreamResets, StreamKeep80, StreamDirect,
   StreamDeclared3}

\* The valid LZMA2 streams (complete, accepted by the reference decoder of
\* the format) that the round-trip properties use, each with the byte
\* string it encodes.
ValidStreams ==
  {[stream |-> StreamHello, message |-> <<104, 101, 108, 108, 111>>],
   [stream |-> StreamLits, message |-> <<97, 98>>],
   [stream |-> StreamTwo80, message |-> <<97, 98>>],
   [stream |-> StreamTwoC0, message |-> <<97, 98>>],
   [stream |-> StreamRawThenC0, message |-> <<97, 98, 99>>],
   [stream |-> StreamRep, message |-> <<97, 97, 97, 97, 98, 98, 98, 98>>],
   [stream |-> StreamSlot4, message |-> <<97, 98, 99, 100, 101, 97, 98>>]}

MaxOutSize == 9

(***************************************************************************)
(* The state machine.  The variables are the fields of the call state;     *)
(* Cur is the state as a record and Load(d) makes d the next state.        *)
(***************************************************************************)
VARIABLES
  frame, outbuf, insizep, outsizep, ret, need_properties, dict_reset_done,
  dict_origin, control, uncompressed, compressed, out_limit, more_run, pc,
  insize0, outsize0, build, chunks, chunk_in, chunk_out, ev, dict_rd,
  dict_bad, out_hi, prev, outsizep_hi, short_chunks, repeat_len

vars ==
  <<frame, outbuf, insizep, outsizep, ret, need_properties,
    dict_reset_done, dict_origin, control, uncompressed, compressed,
    out_limit, more_run, pc, insize0, outsize0, build, chunks, chunk_in,
    chunk_out, ev, dict_rd, dict_bad, out_hi, prev, outsizep_hi,
    short_chunks, repeat_len>>

Cur ==
  [frame |-> frame, outbuf |-> outbuf, insizep |-> insizep,
   outsizep |-> outsizep, ret |-> ret, need_properties |-> need_properties,
   dict_reset_done |-> dict_reset_done, dict_origin |-> dict_origin,
   control |-> control, uncompressed |-> uncompressed,
   compressed |-> compressed, out_limit |-> out_limit,
   more_run |-> more_run, pc |-> pc, insize0 |-> insize0,
   outsize0 |-> outsize0, build |-> build, chunks |-> chunks,
   chunk_in |-> chunk_in, chunk_out |-> chunk_out, ev |-> ev,
   dict_rd |-> dict_rd, dict_bad |-> dict_bad, out_hi |-> out_hi,
   prev |-> prev, outsizep_hi |-> outsizep_hi,
   short_chunks |-> short_chunks, repeat_len |-> repeat_len]

Holds(d) ==
  /\ frame = d.frame
  /\ outbuf = d.outbuf
  /\ insizep = d.insizep
  /\ outsizep = d.outsizep
  /\ ret = d.ret
  /\ need_properties = d.need_properties
  /\ dict_reset_done = d.dict_reset_done
  /\ dict_origin = d.dict_origin
  /\ control = d.control
  /\ uncompressed = d.uncompressed
  /\ compressed = d.compressed
  /\ out_limit = d.out_limit
  /\ more_run = d.more_run
  /\ pc = d.pc
  /\ insize0 = d.insize0
  /\ outsize0 = d.outsize0
  /\ build = d.build
  /\ chunks = d.chunks
  /\ chunk_in = d.chunk_in
  /\ chunk_out = d.chunk_out
  /\ ev = d.ev
  /\ dict_rd = d.dict_rd
  /\ dict_bad = d.dict_bad
  /\ out_hi = d.out_hi
  /\ prev = d.prev
  /\ outsizep_hi = d.outsizep_hi
  /\ short_chunks = d.short_chunks
  /\ repeat_len = d.repeat_len

Load(d) ==
  /\ frame' = d.frame
  /\ outbuf' = d.outbuf
  /\ insizep' = d.insizep
  /\ outsizep' = d.outsizep
  /\ ret' = d.ret
  /\ need_properties' = d.need_properties
  /\ dict_reset_done' = d.dict_reset_done
  /\ dict_origin' = d.dict_origin
  /\ control' = d.control
  /\ uncompressed' = d.uncompressed
  /\ compressed' = d.compressed
  /\ out_limit' = d.out_limit
  /\ more_run' = d.more_run
  /\ pc' = d.pc
  /\ insize0' = d.insize0
  /\ outsize0' = d.outsize0
  /\ build' = d.build
  /\ chunks' = d.chunks
  /\ chunk_in' = d.chunk_in
  /\ chunk_out' = d.chunk_out
  /\ ev' = d.ev
  /\ dict_rd' = d.dict_rd
  /\ dict_bad' = d.dict_bad
  /\ out_hi' = d.out_hi
  /\ prev' = d.prev
  /\ outsizep_hi' = d.outsizep_hi
  /\ short_chunks' = d.short_chunks
  /\ repeat_len' = d.repeat_len

Init ==
  \E inbuf \in Inputs, b \in Builds :
    \E insize \in 0..Len(inbuf), outsize \in 0..MaxOutSize :
      Holds(InitCall(inbuf, insize, outsize, b))

ReadControl == pc = "control" /\ Load(ReadControlStep(Before(Cur)))

UncompressedChunk == pc = "uncompressed" /\ Load(UncompressedChunkStep(Before(Cur)))

LzmaChunkHeader == pc = "lzma" /\ Load(LzmaChunkHeaderStep(Before(Cur)))

LzmaMain == pc = "lzma_main" /\ Load(LzmaMainStep(Before(Cur)))

Finish == pc = "finish" /\ Load(FinishStep(Cur))

(***************************************************************************)
(* rc_bit (lines 202, 209, 216) reads and writes *prob.  When prob points  *)
(* outside frame.probs the behaviour is undefined; what the builds of the  *)
(* source do is one of:                                                    *)
(*   "crashed"       the access faults and the process is killed;          *)
(*   "stray_store"   the store changes memory of the caller outside the    *)
(*                   output buffer;                                        *)
(*   "stray_outbuf"  the store changes the caller's output buffer, at an   *)
(*                   index that need not be below the output size (the     *)
(*                   frame lies on the stack right below the caller's).    *)
(* The call is not followed past this access.                              *)
(***************************************************************************)
UndefinedOutcomes == {"crashed", "stray_store", "stray_outbuf"}

Undefined ==
  /\ pc = "undefined"
  /\ \E o \in UndefinedOutcomes :
       Load([Cur EXCEPT !.pc = o,
                        !.out_hi = IF o = "stray_outbuf"
                                   THEN Max(out_hi, outsize0 + 1) ELSE out_hi])

Next ==
  \/ ReadControl
  \/ UncompressedChunk
  \/ LzmaChunkHeader
  \/ LzmaMain
  \/ Finish
  \/ Undefined

Spec == Init /\ [][Next]_vars

(***************************************************************************)
(* The calls of SpecWide also have output sizes of 2^32 and more, which a  *)
(* size_t holds in an LP64 build only: *outsizep is high * 2^32 + outsize. *)
(***************************************************************************)
MaxOutHigh == 1

OutHighs(bld) == IF bld = "LP64" THEN 0..MaxOutHigh ELSE {0}

InitWide ==
  \E inbuf \in Inputs, b \in Builds :
    \E insize \in 0..Len(inbuf), outsize \in 0..MaxOutSize, high \in OutHighs(b) :
      Holds(InitCallWide(inbuf, insize, outsize, high, b))

SpecWide == InitWide /\ [][Next]_vars

(***************************************************************************)
(* Properties.  Several of them compare the call with other calls on the   *)
(* same buffer (a shorter input, a smaller output room).  Results is the   *)
(* call tabulated over the calls of Init: what it returned, or that its    *)
(* behaviour was undefined.  The bytes produced are output[0 .. *outsizep).*)
(***************************************************************************)
Produced(out, count) == [i \in 1..count |-> OutByte(out, i - 1)]

Summary(c) ==
  [returned |-> c.pc = "done", ret |-> c.ret, insizep |-> c.insizep,
   outsizep |-> c.outsizep, out |-> Produced(c.outbuf, c.outsizep)]

Calls ==
  UNION {{<<inbuf, b>>} \X (0..Len(inbuf)) \X (0..MaxOutSize) :
           <<inbuf, b>> \in Inputs \X Builds}

\* @@ makes the table explicit: each call is evaluated once
Results ==
  [k \in Calls |-> Summary(uncompress_lzma2(k[1][1], k[2], k[3], k[1][2]))]
    @@ <<>>

Result(inbuf, insize, outsize, b) == Results[<<<<inbuf, b>>, insize, outsize>>]

IsPrefix(s, t) == Len(s) <= Len(t) /\ s = SubSeq(t, 1, Len(s))

Returned == pc = "done"

(***************************************************************************)
(* C1: the call reads no input byte at an index >= the input size given,   *)
(* writes no output byte at an index >= the output size given, and on      *)
(* return *insizep and *outsizep are at most the sizes given.              *)
(* in_hi and out_hi are one past the highest index read and written.       *)
(***************************************************************************)
C1_Conservation ==
  /\ frame.in_hi <= insize0
  /\ out_hi <= outsize0
  /\ Returned => insizep <= insize0 /\ outsizep <= outsize0

\* a store of rc_bit through a pointer outside frame.probs changed the
\* caller's output buffer at an index that is not below the output size
C1_Witness ==
  /\ pc = "stray_outbuf"
  /\ out_hi > outsize0
  /\ frame.lc + frame.lp > 4

(***************************************************************************)
(* C2: round trip.  On a valid LZMA2 stream that encodes the message M,    *)
(* given whole and with output room for M, the call returns OK, has        *)
(* produced exactly M and has consumed the whole stream.                   *)
(***************************************************************************)
C2_RoundTrip ==
  \A v \in ValidStreams :
    (/\ Returned
     /\ frame.inbuf = v.stream
     /\ insize0 = Len(v.stream)
     /\ outsize0 >= Len(v.message))
    => /\ ret = UNCOMPRESS_OK
       /\ Produced(outbuf, outsizep) = v.message
       /\ insizep = Len(v.stream)

\* the valid two-chunk stream for 'ab', given whole: OK with other bytes
C2_Witness ==
  /\ Returned
  /\ frame.inbuf = StreamTwo80
  /\ insize0 = Len(StreamTwo80)
  /\ outsize0 >= 2
  /\ ret = UNCOMPRESS_OK
  /\ Produced(outbuf, outsizep) # <<97, 98>>

\* the call with the output size room returned OK with at most room bytes
DecodesTo(full, room) ==
  full.returned /\ full.ret = UNCOMPRESS_OK /\ full.outsizep <= room

(***************************************************************************)
(* C3: if the input decodes with OK to N bytes when the output size is at  *)
(* least N, then with an output size n < N the call returns OUTLIMIT with  *)
(* *outsizep = n, also when n bytes are reached exactly after a literal    *)
(* or a back-reference.                                                    *)
(***************************************************************************)
C3_OutputLimit ==
  \A room \in 0..MaxOutSize :
    (/\ Returned
     /\ DecodesTo(Result(frame.inbuf, insize0, room, build), room)
     /\ outsize0 < Result(frame.inbuf, insize0, room, build).outsizep)
    => ret = UNCOMPRESS_OUTLIMIT /\ outsizep = outsize0

\* the output room is used up exactly after a literal, with input of the
\* chunk left: DATA_ERROR
C3_Witness ==
  /\ Returned
  /\ ev.kind = "chunk_end"
  /\ outsize0 > 0
  /\ outsizep = outsize0
  /\ ret = UNCOMPRESS_DATA_ERROR
  /\ DecodesTo(Result(frame.inbuf, insize0, MaxOutSize, build), MaxOutSize)
  /\ outsize0 < Result(frame.inbuf, insize0, MaxOutSize, build).outsizep

\* the call r, on a prefix of the input, returned the status of this call
\* or INLIMIT
SameOrInlimit(r) == r.returned /\ r.ret \in {ret, UNCOMPRESS_INLIMIT}

(***************************************************************************)
(* C4 as stated: the call has returned OK or DATA_ERROR on the input of    *)
(* insize0 bytes; on a prefix of that input (same output room) the call    *)
(* returns the same status or INLIMIT, and the same status whenever the    *)
(* prefix holds every byte the full run consumed.                          *)
(***************************************************************************)
C4_Original ==
  (Returned /\ ret \in {UNCOMPRESS_OK, UNCOMPRESS_DATA_ERROR})
  => \A k \in 0..insize0 :
       /\ SameOrInlimit(Result(frame.inbuf, k, outsize0, build))
       /\ k >= insizep => Result(frame.inbuf, k, outsize0, build).ret = ret

(***************************************************************************)
(* C4: truncation.  The call has returned OK or DATA_ERROR on the input    *)
(* of insize0 bytes.  On a prefix of that input (same output room) the     *)
(* call returns the same status or INLIMIT, never the other of the two:    *)
(* the same status when the prefix is longer than what the full run        *)
(* consumed, or as long and the status is OK; INLIMIT when it is shorter.  *)
(***************************************************************************)
C4_Truncation ==
  (Returned /\ ret \in {UNCOMPRESS_OK, UNCOMPRESS_DATA_ERROR})
  => \A k \in 0..insize0 :
       /\ SameOrInlimit(Result(frame.inbuf, k, outsize0, build))
       /\ k > insizep => Result(frame.inbuf, k, outsize0, build).ret = ret
       /\ (k >= insizep /\ ret = UNCOMPRESS_OK)
            => Result(frame.inbuf, k, outsize0, build).ret = ret
       /\ k < insizep
            => Result(frame.inbuf, k, outsize0, build).ret = UNCOMPRESS_INLIMIT

\* a DATA_ERROR with input left over: shorter inputs give both statuses
C4_Witness ==
  /\ Returned
  /\ ret = UNCOMPRESS_DATA_ERROR
  /\ outsizep > 0
  /\ \E k \in 0..(insize0 - 1) :
       Result(frame.inbuf, k, outsize0, build).ret = UNCOMPRESS_DATA_ERROR
  /\ \E k \in 0..(insize0 - 1) :
       Result(frame.inbuf, k, outsize0, build).ret = UNCOMPRESS_INLIMIT

\* the call r returned and what it produced is a prefix of what this call
\* produced
PrefixOfProduced(r) == r.returned /\ IsPrefix(r.out, Produced(outbuf, outsizep))

(***************************************************************************)
(* C5: prefix correctness.  When the call has returned (with whatever      *)
(* status), the call on a prefix of the input with an output room n' <= n  *)
(* returns too, and the bytes it produced are a prefix of the bytes        *)
(* produced here.                                                          *)
(***************************************************************************)
C5_PrefixCorrectness ==
  Returned
  => \A k \in 0..insize0, n \in 0..outsize0 :
       PrefixOfProduced(Result(frame.inbuf, k, n, build))

\* a shorter input with a smaller room produced some but not all of the bytes
C5_Witness ==
  /\ Returned
  /\ \E k \in 0..(insize0 - 1), n \in 0..(outsize0 - 1) :
       /\ Result(frame.inbuf, k, n, build).outsizep > 0
       /\ Result(frame.inbuf, k, n, build).outsizep < outsizep
       /\ k < insizep

\* the steps that copy from the dictionary with a distance
BackReferences == {"match", "longrep", "shortrep"}

\* d >= n for a 32-bit d and a small n
DistanceAtLeast(d, n) == d[1] > 0 \/ d[2] >= n

(***************************************************************************)
(* C6: dictionary safety.  Every byte read from the output buffer as       *)
(* dictionary data lay in [dict_origin, outcount) when it was read         *)
(* (dict_bad records a read that did not), and a back-reference or a       *)
(* matched literal whose distance is >= outcount - dict_origin returns     *)
(* DATA_ERROR and copies nothing.  ev holds the distance and the number    *)
(* of bytes the last step copied, so outcount before it is                 *)
(* frame.outcount - ev.len.                                                *)
(***************************************************************************)
C6_DictionarySafety ==
  /\ ~dict_bad
  /\ dict_rd > 0 => dict_origin >= 0 /\ dict_origin < frame.outcount
  /\ (/\ ev.kind \in BackReferences
      /\ DistanceAtLeast(ev.dist, (frame.outcount - ev.len) - dict_origin))
     => /\ ret = UNCOMPRESS_DATA_ERROR
        /\ pc \in {"finish", "done"}
        /\ ev.len = 0
        /\ Len(outbuf) = frame.outcount

\* a back-reference to a byte that is in the output buffer, but before
\* dict_origin, was refused
C6_Witness ==
  /\ dict_origin > 0
  /\ ev.kind = "match"
  /\ ev.len = 0
  /\ DistanceAtLeast(ev.dist, frame.outcount - dict_origin)
  /\ ~DistanceAtLeast(ev.dist, frame.outcount)
  /\ Returned

(***************************************************************************)
(* C7: OK is returned only when a 0x00 byte was read as a control byte;    *)
(* then *insizep is the index just past that byte and no later input byte  *)
(* was read.  An input that starts with 0x00 returns OK with *outsizep = 0 *)
(* although no dictionary reset has occurred.                              *)
(***************************************************************************)
C7_OkOnlyAtEndMarker ==
  /\ (pc \in {"finish", "done"} /\ ret = UNCOMPRESS_OK)
     => /\ ev.kind = "control"
        /\ chunks # <<>>
        /\ chunks[Len(chunks)] = 0
        /\ InByte(frame, chunk_in) = 0
        /\ frame.incount = chunk_in + 1
        /\ frame.in_hi = chunk_in + 1
  /\ (Returned /\ ret = UNCOMPRESS_OK) => insizep = chunk_in + 1
  /\ (Returned /\ insize0 >= 1 /\ InByte(frame, 0) = 0)
     => /\ ret = UNCOMPRESS_OK
        /\ outsizep = 0
        /\ insizep = 1
        /\ ~dict_reset_done

\* OK after two chunks, with an input byte left after the end marker
C7_Witness ==
  /\ Returned
  /\ ret = UNCOMPRESS_OK
  /\ Len(chunks) = 3
  /\ outsizep > 0
  /\ insizep < insize0

\* chunks is the sequence of the control bytes read, the last one being the
\* chunk that is decoded or was rejected
ResetsDictionary(b) == b = 1 \/ b >= 224

\* a dictionary-reset chunk came before the n-th chunk
ResetBefore(n) == \E i \in 1..(n - 1) : ResetsDictionary(chunks[i])

\* a chunk with control >= 0xC0 came before the n-th chunk, at or after the
\* most recent dictionary-reset chunk
PropertiesSince(n) ==
  \E i \in 1..(n - 1) :
    /\ chunks[i] >= 192
    /\ \A j \in (i + 1)..(n - 1) : ~ResetsDictionary(chunks[j])

\* the last chunk, with control byte b, is rejected with DATA_ERROR (an LZMA
\* chunk when its header is looked at) and has produced no output
ChunkRejected(b) ==
  /\ pc \in (IF b >= 128 THEN {"lzma", "finish", "done"} ELSE {"finish", "done"})
  /\ pc # "lzma" => ret = UNCOMPRESS_DATA_ERROR
  /\ frame.outcount = chunk_out
  /\ Len(outbuf) = chunk_out
  /\ Returned => outsizep = chunk_out

(***************************************************************************)
(* C8: chunk ordering.  (a) A control byte other than 0x00, 0x01 and       *)
(* >= 0xE0 read before any dictionary-reset chunk returns DATA_ERROR.      *)
(* (b) A control byte 0x80..0xBF returns DATA_ERROR unless a chunk with    *)
(* control >= 0xC0 came at or after the most recent dictionary-reset       *)
(* chunk.  In both cases the chunk produces no output.                     *)
(***************************************************************************)
C8_ChunkOrdering ==
  chunks # <<>>
  => /\ (/\ chunks[Len(chunks)] # 0
         /\ ~ResetsDictionary(chunks[Len(chunks)])
         /\ ~ResetBefore(Len(chunks)))
        => ChunkRejected(0)
     /\ (/\ chunks[Len(chunks)] \in 128..191
         /\ ~PropertiesSince(Len(chunks)))
        => ChunkRejected(chunks[Len(chunks)])

\* a chunk 0x80 after an uncompressed chunk that reset the dictionary
C8_Witness ==
  /\ Returned
  /\ chunks = <<1, 128>>
  /\ ret = UNCOMPRESS_DATA_ERROR
  /\ outsizep = 1

\* the size n = ((H << 8) | L) + 1 in the two bytes after the last control
\* byte, the input bytes after them, and the output room at the chunk's start
SizeField == InByte(frame, chunk_in + 1) * 256 + InByte(frame, chunk_in + 2) + 1

InputAfterSizeField == insize0 - (chunk_in + 3)

OutputRoom == outsize0 - chunk_out

(***************************************************************************)
(* C9: an uncompressed chunk with the size bytes H, L, n = ((H << 8) | L)  *)
(* + 1, with at least n input bytes after the size field and at least n    *)
(* bytes of output room: the n input bytes are appended to the output in   *)
(* order, the input position is 2 + n past the control byte, and the call  *)
(* goes on to the next control byte.  The stream 01 00 04 'hello' 00 gives *)
(* OK, 'hello' and *insizep = 9.                                           *)
(***************************************************************************)
C9_UncompressedChunk ==
  /\ (/\ ev.kind = "uncompressed"
      /\ SizeField <= InputAfterSizeField
      /\ SizeField <= OutputRoom)
     => /\ control \in {1, 2}
        /\ Len(outbuf) = chunk_out + SizeField
        /\ \A i \in 1..SizeField :
             outbuf[chunk_out + i] = InByte(frame, chunk_in + 2 + i)
        /\ frame.outcount = chunk_out + SizeField
        /\ frame.incount = chunk_in + 1 + 2 + SizeField
        /\ ret = UNCOMPRESS_OK
        /\ pc = "control"
  /\ (/\ Returned
      /\ frame.inbuf = StreamHello
      /\ insize0 = 9
      /\ outsize0 >= 5)
     => /\ ret = UNCOMPRESS_OK
        /\ Produced(outbuf, outsizep) = <<104, 101, 108, 108, 111>>
        /\ insizep = 9

\* the second chunk, with control 0x02, was copied after a first one
C9_Witness ==
  /\ ev.kind = "uncompressed"
  /\ control = 2
  /\ chunk_out > 0
  /\ SizeField <= InputAfterSizeField
  /\ SizeField <= OutputRoom
  /\ pc = "control"

(***************************************************************************)
(* C10 as stated: an uncompressed chunk whose size n exceeds the input     *)
(* left after the size field returns INLIMIT, whatever the output room.    *)
(***************************************************************************)
C10_Original ==
  (ev.kind = "uncompressed" /\ SizeField > InputAfterSizeField)
  => ret = UNCOMPRESS_INLIMIT

(***************************************************************************)
(* C10: an uncompressed chunk whose size n exceeds the input left after    *)
(* the size field returns INLIMIT when the output room holds the input     *)
(* bytes that are left, and OUTLIMIT when it does not; the bytes copied    *)
(* are the smaller of the two counts.                                      *)
(***************************************************************************)
C10_TruncatedUncompressedChunk ==
  (ev.kind = "uncompressed" /\ SizeField > InputAfterSizeField)
  => /\ pc \in {"finish", "done"}
     /\ ret = (IF OutputRoom >= InputAfterSizeField
               THEN UNCOMPRESS_INLIMIT ELSE UNCOMPRESS_OUTLIMIT)
     /\ ev.len = Min(InputAfterSizeField, OutputRoom)
     /\ frame.outcount = chunk_out + ev.len
     /\ frame.incount = chunk_in + 3 + ev.len

\* the output room is smaller than n but holds the input bytes that are left
C10_Witness ==
  /\ Returned
  /\ ev.kind = "uncompressed"
  /\ SizeField > InputAfterSizeField
  /\ InputAfterSizeField > 0
  /\ OutputRoom < SizeField
  /\ ret = UNCOMPRESS_INLIMIT

\* the last step copied a back-reference that did not fit below out_limit:
\* only the clipping of lines 602-606 ends a copy with a status other than OK
Overflowed ==
  /\ ev.kind \in {"match", "longrep", "shortrep"}
  /\ ev.len > 0
  /\ ret # UNCOMPRESS_OK

\* the declared uncompressed size of the chunk fits in the output room left
\* at the start of the chunk
DeclaredFits == chunk_out + uncompressed <= outsize0

(***************************************************************************)
(* C11: a back-reference of an LZMA chunk that is longer than the room     *)
(* below out_limit returns DATA_ERROR when the declared uncompressed size  *)
(* of the chunk fits in the output room left (outcount + uncompressed <=   *)
(* output size, equality included) and OUTLIMIT only when the declared     *)
(* size exceeds that room; in both cases exactly the bytes up to out_limit *)
(* are copied.                                                             *)
(***************************************************************************)
C11_OverflowStatus ==
  Overflowed =>
    /\ DeclaredFits => ret = UNCOMPRESS_DATA_ERROR
    /\ ~DeclaredFits => ret = UNCOMPRESS_OUTLIMIT
    /\ frame.outcount = out_limit
    /\ Len(outbuf) = out_limit

\* an overflowing back-reference in a chunk whose declared size is exactly the
\* output room left, reported as OUTLIMIT
C11_Witness ==
  /\ Overflowed
  /\ chunk_out + uncompressed = outsize0
  /\ ret = UNCOMPRESS_OUTLIMIT
  /\ frame.outcount = out_limit

(***************************************************************************)
(* C12: when the symbol loop of an LZMA chunk is left because outcount     *)
(* reached out_limit, the status is DATA_ERROR if the input position is    *)
(* below rc_limit, and the next control byte is read if the input position *)
(* equals rc_limit; the input position never exceeds rc_limit while the    *)
(* symbols of the chunk are decoded.                                       *)
(***************************************************************************)
C12_ChunkEnd ==
  /\ ev.kind = "chunk_end" =>
       /\ frame.outcount >= out_limit
       /\ frame.incount <= frame.rc_limit
       /\ frame.incount < frame.rc_limit =>
            ret = UNCOMPRESS_DATA_ERROR /\ pc \in {"finish", "done"}
       /\ frame.incount = frame.rc_limit =>
            ret = UNCOMPRESS_OK /\ pc = "control"
  /\ pc = "lzma_main" => frame.incount <= frame.rc_limit

\* the loop left at out_limit with bytes of the chunk not consumed
C12_Witness ==
  /\ ev.kind = "chunk_end"
  /\ frame.outcount = out_limit
  /\ frame.incount < frame.rc_limit
  /\ ret = UNCOMPRESS_DATA_ERROR

\* the call returned from the header of an LZMA chunk after the 4 bytes of
\* the sizes and the properties byte, if the chunk has one, were read
HeaderRead ==
  /\ ev.kind = "header"
  /\ pc \in {"finish", "done"}
  /\ frame.incount = chunk_in + 5 + (IF control >= 192 THEN 1 ELSE 0)

\* ... and fewer than the 5 init bytes are left in the input
InitShort == HeaderRead /\ frame.inlimit - frame.incount < RC_INIT_BYTES

\* the properties byte of a chunk that has one is not a valid one
BadProps ==
  control >= 192 /\ InByte(frame, frame.incount - 1) > (4 * 5 + 4) * 9 + 8

\* C13 as stated: INLIMIT whatever the header declares
C13_Original == InitShort => ret = UNCOMPRESS_INLIMIT

(***************************************************************************)
(* C13: when the input ends before the 5 range-coder init bytes of an LZMA *)
(* chunk are all available (fewer than 5 bytes are left after the size     *)
(* header and the properties byte), the call returns INLIMIT, unless the   *)
(* header read so far is already invalid: a properties byte above 224 or a *)
(* declared compressed size below 5 gives DATA_ERROR first.                *)
(***************************************************************************)
C13_InitBytesShort ==
  InitShort =>
    ret = IF BadProps \/ compressed < RC_INIT_BYTES
          THEN UNCOMPRESS_DATA_ERROR
          ELSE UNCOMPRESS_INLIMIT

\* fewer than 5 bytes left after a header declaring a compressed size of 4
C13_Witness ==
  /\ InitShort
  /\ ~BadProps
  /\ compressed < RC_INIT_BYTES
  /\ ret = UNCOMPRESS_DATA_ERROR

\* the header of an LZMA chunk was read and its first symbol is next
SymbolsStart == ev.kind = "header" /\ pc = "lzma_main"

(***************************************************************************)
(* C14: at the start of the symbol decoding of every LZMA chunk (control   *)
(* 0x80..0xFF, the chunks 0x80..0x9F without a state reset included), the  *)
(* range of the range coder is 0xFFFFFFFF and its code is the big-endian   *)
(* 32-bit value of the init bytes 1..4.                                    *)
(***************************************************************************)
C14_RangeCoderInit ==
  SymbolsStart =>
    /\ control \in 128..255
    /\ frame.rc_range = U32Max
    /\ frame.rc_code = read_unaligned_be32(frame, frame.incount - 4)

\* a chunk 0x80..0x9F whose symbols start with the range the previous LZMA
\* chunk left
C14_Witness ==
  /\ SymbolsStart
  /\ control \in 128..159
  /\ frame.rc_range # U32Max
  /\ frame.rc_code = read_unaligned_be32(frame, frame.incount - 4)

\* C15 as stated: rc_limit is the position behind the init bytes plus the
\* declared compressed size, and no declared size is rejected
C15_Original ==
  /\ SymbolsStart =>
       frame.rc_limit = Min(frame.incount + compressed, frame.inlimit)
  /\ HeaderRead /\ ~BadProps /\ frame.inlimit - frame.incount >= RC_INIT_BYTES
       => ret # UNCOMPRESS_DATA_ERROR

(***************************************************************************)
(* C15: for an LZMA chunk with declared compressed size c, rc_limit is the *)
(* input position of the first init byte plus c, capped at inlimit, and    *)
(* is set before the 5 init bytes are consumed: the init bytes count       *)
(* towards c, the range coder may read up to c - 5 bytes after them, and a *)
(* declared c below 5 is rejected with DATA_ERROR.                         *)
(***************************************************************************)
C15_RcLimit ==
  /\ SymbolsStart =>
       /\ compressed \in RC_INIT_BYTES..65536
       /\ frame.rc_limit =
            Min(frame.incount - RC_INIT_BYTES + compressed, frame.inlimit)
       /\ frame.incount <= frame.rc_limit
  /\ HeaderRead /\ ~BadProps /\ compressed < RC_INIT_BYTES
       => ret = UNCOMPRESS_DATA_ERROR
  /\ HeaderRead /\ ~BadProps /\ ret = UNCOMPRESS_DATA_ERROR
       => compressed < RC_INIT_BYTES

\* the symbols of a chunk start with rc_limit below the end of the input, at
\* the declared compressed size counted from the first init byte
C15_Witness ==
  /\ SymbolsStart
  /\ frame.rc_limit = frame.incount - RC_INIT_BYTES + compressed
  /\ frame.rc_limit < frame.inlimit
  /\ frame.incount < frame.rc_limit

\* the last step emitted a literal
LiteralEmitted == ev.kind = "literal" /\ ev.len = 1

\* C16 as stated: the states 7..11 go to state - 6
C16_Original ==
  LiteralEmitted =>
    frame.state = IF prev.state <= 3 THEN 0
                  ELSE IF prev.state <= 6 THEN prev.state - 3
                  ELSE prev.state - 6

(***************************************************************************)
(* C16: after a literal is emitted the LZMA state has changed by the       *)
(* literal transition table: from the states 0..3 to 0, from the states    *)
(* 4..9 to state - 3, and from the states 10..11 to state - 6.             *)
(***************************************************************************)
C16_LiteralTransition ==
  LiteralEmitted =>
    /\ prev.state \in 0..(STATES - 1)
    /\ frame.state = IF prev.state <= 3 THEN 0
                     ELSE IF prev.state <= 9 THEN prev.state - 3
                     ELSE prev.state - 6

\* a literal emitted right after a match or a rep from a literal state
C16_Witness ==
  /\ LiteralEmitted
  /\ prev.state \in 7..9
  /\ frame.state = prev.state - 3

\* the last step emitted a symbol (a back-reference may have been clipped)
Emitted ==
  ev.kind \in {"literal", "match", "longrep", "shortrep"} /\ ev.len > 0

\* the decoding goes on, or the last step emitted a symbol
BetweenSymbols ==
  pc \in {"control", "uncompressed", "lzma", "lzma_main"} \/ Emitted

\* the state the symbol kind k sets from the state s
StateAfter(k, s) ==
  CASE k = "match" ->
         IF s < LIT_STATES THEN STATE_LIT_MATCH ELSE STATE_NONLIT_MATCH
    [] k = "longrep" ->
         IF s < LIT_STATES THEN STATE_LIT_LONGREP ELSE STATE_NONLIT_REP
    [] k = "shortrep" ->
         IF s < LIT_STATES THEN STATE_LIT_SHORTREP ELSE STATE_NONLIT_REP

(***************************************************************************)
(* C17: once the state has been reset, the LZMA state is in 0..11; between *)
(* symbols it is below 7 exactly when the last symbol emitted since the    *)
(* reset was a literal or there is none; a new match sets it to 7 or 10, a *)
(* long rep to 8 or 11 and a short rep to 9 or 11, the first value exactly *)
(* when the state before was below 7.                                      *)
(***************************************************************************)
C17_StateInvariant ==
  /\ frame.state # Uninit => frame.state \in 0..(STATES - 1)
  /\ frame.state # Uninit /\ BetweenSymbols =>
       (frame.state < LIT_STATES <=> LastEmission(Cur) \in {"literal", "none"})
  /\ ev.kind \in {"match", "longrep", "shortrep"} =>
       /\ prev.state \in 0..(STATES - 1)
       /\ frame.state = StateAfter(ev.kind, prev.state)

\* a short rep emitted in a state that did not follow a literal
C17_Witness ==
  /\ Emitted
  /\ ev.kind = "shortrep"
  /\ prev.state >= LIT_STATES
  /\ frame.state = STATE_NONLIT_REP
  /\ LastEmission(Cur) = "shortrep"

\* rep with the entry of index i (0-based) moved to the front
MovedToFront(rep, i) ==
  [j \in 1..4 |-> IF j = 1 THEN rep[i + 1]
                  ELSE IF j <= i + 1 THEN rep[j - 1]
                  ELSE rep[j]]

\* the last ev.len bytes of the output repeat the bytes at the distance dist
CopiedFrom(dist) ==
  \A k \in (Len(outbuf) - ev.len + 1)..Len(outbuf) :
    /\ k - (dist + 1) >= 1
    /\ outbuf[k] = outbuf[k - (dist + 1)]

(***************************************************************************)
(* C18: a literal or a short rep leaves rep[0..3] unchanged; a long rep at *)
(* index i makes rep[0] the old rep[i], shifts the old rep[0..i-1] to      *)
(* rep[1..i] and leaves rep[i+1..3] unchanged; a new match sets rep[1..3]  *)
(* to the old rep[0..2] and rep[0] to the decoded distance, the one the    *)
(* bytes are copied from.                                                  *)
(***************************************************************************)
C18_RecentDistances ==
  Emitted =>
    CASE ev.kind \in {"literal", "shortrep"} -> frame.rep = prev.rep
      [] ev.kind = "longrep" ->
           /\ ev.rep_index \in 0..3
           /\ frame.rep = MovedToFront(prev.rep, ev.rep_index)
           /\ \A d \in 0..3 :
                Cardinality({j \in 1..4 : frame.rep[j] = U32(d)})
                  = Cardinality({j \in 1..4 : prev.rep[j] = U32(d)})
      [] ev.kind = "match" ->
           /\ frame.rep[2] = prev.rep[1]
           /\ frame.rep[3] = prev.rep[2]
           /\ frame.rep[4] = prev.rep[3]
           /\ frame.rep[1] = ev.dist
           /\ CopiedFrom(U32Val(frame.rep[1]))

\* a long rep of rep[3] with four different recent distances
C18_Witness ==
  /\ Emitted
  /\ ev.kind = "longrep"
  /\ ev.rep_index = 3
  /\ Cardinality({prev.rep[j] : j \in 1..4}) = 4
  /\ frame.rep = <<prev.rep[4], prev.rep[1], prev.rep[2], prev.rep[3]>>

(***************************************************************************)
(* C19: after every call of rc_normalize that returns 1 during a call of   *)
(* uncompress_lzma2, over all chunks, the 32-bit range is at least 2^24:   *)
(* one shift by 8 bits always suffices.                                    *)
(***************************************************************************)
C19_RangeNormalized ==
  /\ frame.rc_min >= 2^(RC_TOP_BITS - 16)
  /\ frame.rc_min <= U32Max[1]

\* calls of rc_normalize have shifted the range, in a second LZMA chunk as
\* well, and the range after one of them was below 2^25
C19_Witness ==
  /\ frame.rc_shifts >= 2
  /\ Len(chunks) >= 2
  /\ control >= 128
  /\ pc = "lzma_main"
  /\ ev.kind # "header"
  /\ frame.rc_min >= 2^(RC_TOP_BITS - 16)
  /\ frame.rc_min < 2^(RC_TOP_BITS - 15)

\* the last step left state, rep[0..3] and every probability as they were
\* (a probability that is not in the domain of probs has not been stored to
\* since lzma_reset and is RC_BIT_MODEL_TOTAL / 2, see ProbAt)
SameModel ==
  /\ frame.state = prev.state
  /\ frame.rep = prev.rep
  /\ frame.probs = prev.probs

\* the last step left lc, lp and pb as they were
SameProperties ==
  /\ frame.lc = prev.lc
  /\ frame.lp = prev.lp
  /\ frame.pb = prev.pb

\* the last step was of the chunk loop outside the symbols of an LZMA chunk:
\* a control byte, an uncompressed chunk, the end of the symbols of a chunk
ChunkLoopStep ==
  ev.kind \in {"control", "uncompressed", "reserved", "size_field", "chunk_end"}

(***************************************************************************)
(* C20: an LZMA chunk with control >= 0xA0 sets state to 0, rep[0..3] to 0 *)
(* and every probability to 1024 before its first symbol is decoded;       *)
(* control bytes, uncompressed chunks and the headers of LZMA chunks       *)
(* 0x80..0x9F leave state, rep[0..3], every probability and lc/lp/pb as    *)
(* they were; lc/lp/pb change only in the header of a chunk with control   *)
(* >= 0xC0, and no symbol changes them.                                    *)
(***************************************************************************)
C20_ResetEffects ==
  /\ SymbolsStart /\ control >= 160 =>
       /\ frame.state = STATE_LIT_LIT
       /\ frame.rep = <<U32(0), U32(0), U32(0), U32(0)>>
       /\ \A i \in DOMAIN frame.probs :
            ProbAt(frame.probs, i) = RC_BIT_MODEL_TOTAL \div 2
  /\ ChunkLoopStep => SameModel /\ SameProperties
  /\ ev.kind = "header" /\ control < 160 => SameModel /\ SameProperties
  /\ ev.kind = "header" /\ control < 192 => SameProperties
  /\ ~SameProperties => ev.kind = "header" /\ control >= 192

\* a chunk A0 after a chunk that ended in state 7 with a recent distance and
\* adapted probabilities: all reset, lc/lp/pb kept
C20_Witness ==
  /\ SymbolsStart
  /\ control \in 160..191
  /\ prev.state = STATE_LIT_MATCH
  /\ prev.rep[1] # U32(0)
  /\ \E i \in DOMAIN prev.probs : prev.probs[i] # RC_BIT_MODEL_TOTAL \div 2
  /\ frame.state = STATE_LIT_LIT
  /\ frame.rep[1] = U32(0)
  /\ SameProperties

(***************************************************************************)
(* C21: at the start of the symbol decoding of every LZMA chunk, for every *)
(* output size a size_t holds (sizes of 2^32 and more included), out_limit *)
(* is the smaller of outcount + uncompressed and the caller's output size. *)
(* An output size of 2^32 or more is above outcount + uncompressed.        *)
(***************************************************************************)
C21_OutLimit ==
  SymbolsStart
    => out_limit = IF outsizep_hi > 0
                   THEN frame.outcount + uncompressed
                   ELSE Min(frame.outcount + uncompressed, outsizep)

\* an output size of 2^32 or more whose low 32 bits are the ceiling
C21_Witness ==
  /\ SymbolsStart
  /\ outsizep_hi > 0
  /\ out_limit = outsizep
  /\ out_limit < frame.outcount + uncompressed
  /\ ~more_run

\* the row of frame.probs.literal that lines 400-402 select for the literal
\* at the output position p
LiteralRowAt(p) ==
  LiteralRow(IF p > dict_origin THEN OutByte(outbuf, p - 1) ELSE 0,
             p - dict_origin, frame.lc, frame.lp)

\* lzma_literal selected a row outside the literal table
LiteralFault == pc = "undefined" /\ ev.kind = "literal"

(***************************************************************************)
(* C22: for every properties byte the decoder accepts, every previous byte *)
(* and every output position, the row of the literal table that            *)
(* lzma_literal selects is in 0..15: this for the literal that was just    *)
(* emitted, and for the literal whose decoding has just begun.             *)
(***************************************************************************)
C22_LiteralRow ==
  /\ LiteralEmitted => LiteralRowAt(frame.outcount - 1) \in 0..15
  /\ LiteralFault => LiteralRowAt(frame.outcount) \in 0..15

\* accepted properties with lc + lp = 5: the literal at position 1 has row 16
C22_Witness ==
  /\ LiteralFault
  /\ frame.lc = 4 /\ frame.lp = 1
  /\ frame.outcount - dict_origin = 1
  /\ LiteralRowAt(frame.outcount) = 16

(***************************************************************************)
(* C23: if the call returns OK, every LZMA chunk it processed produced     *)
(* exactly the number of output bytes the chunk declares, whatever the     *)
(* output size of the call is.                                             *)
(***************************************************************************)
C23_DeclaredOutput ==
  Returned /\ ret = UNCOMPRESS_OK => short_chunks = 0

\* OK after a chunk that declares 3 bytes and has produced the 2 bytes the
\* output size allows
C23_Witness ==
  /\ Returned
  /\ ret = UNCOMPRESS_OK
  /\ short_chunks = 1
  /\ chunks = <<224, 0>>
  /\ uncompressed = 3
  /\ outsize0 = 2
  /\ outsizep = 2

\* the control bytes of the LZMA chunks read so far
LzmaChunks == SelectSeq(chunks, LAMBDA ctl : ctl >= 128)

(***************************************************************************)
(* C24: whenever the symbol decoder runs, lc, lp and pb have been set from *)
(* a properties byte, lzma_reset has been executed (it sets state, rep,    *)
(* the probabilities and the range together, so state, rep and the range   *)
(* stand for the probabilities here), a dictionary reset has assigned      *)
(* dict_origin, and the first LZMA chunk of the call has a control byte of *)
(* 0xC0 or more.  An LZMA chunk that does not reach the symbol decoder     *)
(* ends the call, so the first LZMA chunk read is the first to reach it.   *)
(***************************************************************************)
C24_DecoderInitialised ==
  pc = "lzma_main" =>
    /\ frame.lc \in 0..8 /\ frame.lp \in 0..4 /\ frame.pb \in 0..4
    /\ frame.state \in 0..(STATES - 1)
    /\ Len(frame.rep) = 4
    /\ frame.rc_range # <<Uninit, Uninit>>
    /\ dict_reset_done /\ ~need_properties
    /\ dict_origin \in 0..frame.outcount
    /\ LzmaChunks[1] >= 192

\* an LZMA chunk without a properties byte and without a reset (control
\* 0x80) starts its symbols after an LZMA chunk that has reset the
\* dictionary and loaded the properties
C24_Witness ==
  /\ SymbolsStart
  /\ control = 128
  /\ LzmaChunks = <<224, 128>>
  /\ frame.outcount > 0
  /\ dict_origin = 0

\* the call has returned, or has ended in one of the outcomes of an access
\* outside frame.probs (where it is not followed further)
Stopped == pc = "done" \/ pc \in UndefinedOutcomes

\* an iteration of the chunk loop begins by reading the control byte: it
\* consumes that byte or returns, and no step gives input bytes back
ChunkLoopProgress ==
  /\ frame'.incount >= frame.incount
  /\ pc = "control" => frame'.incount > frame.incount \/ pc' = "finish"

\* an iteration of the symbol loop emits output or leaves the loop
SymbolLoopProgress ==
  /\ frame'.outcount >= frame.outcount
  /\ pc = "lzma_main" => frame'.outcount > frame.outcount \/ pc' # "lzma_main"

\* the copy loop of lines 610-612 is given a length of 1 or more, and that
\* many bytes are emitted
CopyLoopLength ==
  repeat_len' # Uninit /\ pc = "lzma_main"
    => repeat_len' >= 1 /\ frame'.outcount = frame.outcount + repeat_len'

\* the places of the code that have a step: every action of Next is guarded
\* by its value of pc alone
Running == {"control", "uncompressed", "lzma", "lzma_main", "finish", "undefined"}

\* The variant of the call: the input left, then the place in the code with
\* the output left below out_limit while the symbol loop runs.  The steps
\* from "uncompressed" and "lzma" consume input or go to finish.
VariantAt(place, in_left, out_left) ==
  <<in_left,
    CASE place = "lzma_main" -> 3 + out_left
      [] place \in {"control", "uncompressed", "lzma"} -> 2
      [] place \in {"finish", "undefined"} -> 1
      [] place \notin Running -> 0>>

Variant ==
  VariantAt(pc, frame.inlimit - frame.incount, out_limit - frame.outcount)

\* a pair of naturals
IsVariant(v) == v[1] \in Nat /\ v[2] \in Nat

\* the lexicographic order of the pairs
VariantLess(v, w) == v[1] < w[1] \/ (v[1] = w[1] /\ v[2] < w[2])

(***************************************************************************)
(* C25: the call terminates, for every input and every output size: every  *)
(* iteration of the chunk loop consumes an input byte or returns, every    *)
(* iteration of the symbol loop emits an output byte or leaves the loop,   *)
(* and the copy loop is never given the length 0.  Termination is the      *)
(* variant: a pair of naturals that every step of the call makes smaller   *)
(* in the lexicographic order, while every state in which the call has not *)
(* stopped is at a place of the code that has a step.                      *)
(***************************************************************************)
C25_Terminates ==
  /\ [](IsVariant(Variant) /\ (Stopped \/ pc \in Running))
  /\ [][/\ ChunkLoopProgress
        /\ SymbolLoopProgress
        /\ CopyLoopLength
        /\ VariantLess(Variant', Variant)]_vars

\* the call has returned after a back reference of two bytes or more that
\* was clipped to the one byte of room left below out_limit
C25_Witness ==
  /\ pc = "done"
  /\ ev.kind \in {"match", "longrep"}
  /\ repeat_len = 1
  /\ ret = UNCOMPRESS_OUTLIMIT
  /\ outsizep = outsize0

=============================================================================
